---------------------------- MODULE Spec2Model ----------------------------
(***************************************************************************)
(* A model of the pathfinding engines of RachieCodes/pathing-algorithms:   *)
(* the Grid with its per-cell search scratch state (core/grid.py,          *)
(* core/node.py), the Result contract (core/algorithm_base.py) and the     *)
(* search engines (algorithms/...).                                        *)
(*                                                                         *)
(* Numbers.  The code computes costs in IEEE doubles.  Here every cost is  *)
(* an integer number of thousandths of a straight step: straight_cost is   *)
(* 1000, diagonal_cost (sqrt 2) is 1414, a Euclidean distance is the       *)
(* integer square root of 10^6 * (dx^2 + dy^2), and float('inf') is Inf.   *)
(* Rounding below one thousandth is therefore not modelled.                *)
(*                                                                         *)
(* A find_path call is a sequence of actions: Call (the prologue up to the *)
(* first loop test), one action per iteration of the engine's main loop,   *)
(* and the call is over when pc is "done" (a Result was returned) or       *)
(* "raised" (an exception left find_path).                                 *)
(***************************************************************************)
EXTENDS Integers, Sequences, FiniteSets, TLC

VARIABLES
    width, height,        \* Grid.width, Grid.height
    kind,                 \* the Grid subclass: "Grid", "AngleGrid", "DynamicGrid",
                          \* "WeightedGrid"
    terrain,              \* WeightedGrid.terrain: the terrain type of every cell
    diagonal_movement,    \* Grid.diagonal_movement
    ids,                  \* id(node) of every GridNode of the grid
    nodes,                \* Grid.nodes: the GridNode of every cell
    pc,                   \* "setup", "run", "done", "raised"
    engine,               \* the engine object find_path is called on
    start, goal,          \* the arguments of the call
    open_set,             \* the heap of the running search
    closed_set,           \* the closed set of the running search
    seq,                  \* number of heappush calls of the running search
    locals,               \* the other local variables of the running find_path
    phi_star,             \* the fields of the IncrementalPhiStar object
    stats,                \* _nodes_expanded, _nodes_visited, _iterations
    result,               \* the PathfindingResult returned (pc = "done")
    calls,                \* number of find_path calls made on this grid
    demonstrated,         \* the engine and the Result of the call before this one
    sight                 \* the last has_line_of_sight call and what it returned

vars == <<width, height, kind, terrain, diagonal_movement, ids, nodes, pc, engine,
          start, goal, open_set, closed_set, seq, locals, phi_star, stats,
          result, calls, demonstrated, sight>>

gridVars == <<width, height, kind, terrain, diagonal_movement, ids>>

-----------------------------------------------------------------------------
(* Bounds of the model *)

MaxWidth == 4           \* the width of the grids of SpecSearch
MaxHeight == 3          \* the height of the grids of SpecSearch
SearchObstacles == 1    \* the most unwalkable cells of a grid of SpecSearch
SmallWidth == 3         \* the width of the grids of Spec and SpecReuse
SmallHeight == 2        \* the height of the grids of Spec and SpecReuse
MaxObstacles == 2       \* the most unwalkable cells of a grid of Spec
ReuseObstacles == 1     \* the most unwalkable cells of a grid of SpecReuse
MaxCalls == 2           \* the most find_path calls on one grid (SpecReuse)
MaxIterations == 24     \* the most _rbfs calls of one find_path call
SampledIterations == 2  \* max_iterations of the sampling engines

-----------------------------------------------------------------------------
(* Numbers *)

straight_cost == 1000
diagonal_cost == 1414
Inf == 100000000

None == <<-1, -1>>

Abs(n) == IF n < 0 THEN -n ELSE n
Max(a, b) == IF a >= b THEN a ELSE b
Min(a, b) == IF a <= b THEN a ELSE b

\* a + b on floats where either may be float('inf')
Plus(a, b) == IF a >= Inf \/ b >= Inf THEN Inf ELSE a + b

RECURSIVE SqrtSearch(_, _, _)
SqrtSearch(n, lo, hi) ==
    IF lo >= hi THEN lo
    ELSE LET mid == (lo + hi + 1) \div 2
         IN  IF mid * mid <= n THEN SqrtSearch(n, mid, hi)
                               ELSE SqrtSearch(n, lo, mid - 1)

\* math.sqrt(dx*dx + dy*dy), in thousandths
Sqrt(dx, dy) ==
    SqrtSearch((dx * dx + dy * dy) * straight_cost * straight_cost, 0,
               (Abs(dx) + Abs(dy)) * straight_cost)

-----------------------------------------------------------------------------
(* core/node.py *)

GridNode(k) ==
    LET base == [g_cost |-> Inf, h_cost |-> 0, f_cost |-> Inf, parent |-> None,
                 visited |-> FALSE, in_open_set |-> FALSE, walkable |-> TRUE]
    IN  CASE k = "AngleGrid" -> base @@ [parent_xy |-> None]
          [] k = "DynamicGrid" -> base @@ [rhs |-> Inf, in_queue |-> FALSE,
                                           cost_changed |-> FALSE]
          [] OTHER -> base

\* GridNode.reset, AngleNode.reset, DynamicNode.reset
reset(n) ==
    LET base == [n EXCEPT !.g_cost = Inf, !.h_cost = 0, !.f_cost = Inf,
                          !.parent = None, !.visited = FALSE,
                          !.in_open_set = FALSE]
    IN  IF "parent_xy" \in DOMAIN n THEN [base EXCEPT !.parent_xy = None]
        ELSE IF "rhs" \in DOMAIN n
             THEN [base EXCEPT !.rhs = Inf, !.in_queue = FALSE,
                               !.cost_changed = FALSE]
             ELSE base

manhattan_distance(a, b) == (Abs(a[1] - b[1]) + Abs(a[2] - b[2])) * straight_cost
\* euclidean_distance without its square root
squared_distance(a, b) ==
    ((a[1] - b[1]) * (a[1] - b[1]) + (a[2] - b[2]) * (a[2] - b[2])) * straight_cost

euclidean_distance(a, b) == Sqrt(a[1] - b[1], a[2] - b[2])
diagonal_distance(a, b) == Max(Abs(a[1] - b[1]), Abs(a[2] - b[2])) * straight_cost

-----------------------------------------------------------------------------
(* core/grid.py *)

CellsOf(w, h) == (0 .. w - 1) \X (0 .. h - 1)
Cells == CellsOf(width, height)

is_valid_position(c) == 0 <= c[1] /\ c[1] < width /\ 0 <= c[2] /\ c[2] < height

is_walkable(ns, c) == is_valid_position(c) /\ ns[c].walkable

Directions(diag) ==
    IF diag
    THEN << <<0, 1>>, <<1, 0>>, <<0, -1>>, <<-1, 0>>,
            <<1, 1>>, <<1, -1>>, <<-1, 1>>, <<-1, -1>> >>
    ELSE << <<0, 1>>, <<1, 0>>, <<0, -1>>, <<-1, 0>> >>

RECURSIVE Collect(_, _, _, _)
Collect(ns, c, dirs, i) ==
    IF i > Len(dirs) THEN << >>
    ELSE LET n == <<c[1] + dirs[i][1], c[2] + dirs[i][2]>>
         IN  IF is_walkable(ns, n)
             THEN <<n>> \o Collect(ns, c, dirs, i + 1)
             ELSE Collect(ns, c, dirs, i + 1)

\* get_neighbors without its is_walkable test
get_neighbors_through_walls(ns, c) ==
    Collect([n \in DOMAIN ns |-> [ns[n] EXCEPT !.walkable = TRUE]], c,
            Directions(diagonal_movement), 1)

get_neighbors(ns, c) == Collect(ns, c, Directions(diagonal_movement), 1)

get_movement_cost(a, b) ==
    LET dx == Abs(b[1] - a[1])
        dy == Abs(b[2] - a[2])
    IN  IF dx = 1 /\ dy = 1 THEN diagonal_cost
        ELSE IF (dx = 1 /\ dy = 0) \/ (dx = 0 /\ dy = 1) THEN straight_cost
        ELSE Inf

\* reset_pathfinding_data that leaves the scratch state of the search before
reset_skipped(ns) == ns

reset_pathfinding_data(ns) == [c \in DOMAIN ns |-> reset(ns[c])]

RECURSIVE PathTo(_, _, _)
\* the while loop of Grid.get_path, before the reversal; fuel bounds the walk
PathTo(ns, c, fuel) ==
    IF c = None \/ fuel = 0 THEN << >>
    ELSE PathTo(ns, ns[c].parent, fuel - 1) \o <<c>>

get_path(ns, c) == PathTo(ns, c, Cardinality(DOMAIN ns) + 1)

-----------------------------------------------------------------------------
(* core/algorithm_base.py *)

NoStats == [nodes_expanded |-> 0, nodes_visited |-> 0, iterations |-> 0]

\* PathfindingResult.__init__; an error_message of None is "None"
NoResult == [found |-> FALSE, path |-> << >>, path_length |-> 0, path_cost |-> 0,
             error_message |-> "None", nodes_expanded |-> 0, nodes_visited |-> 0,
             iterations |-> 0, algorithm_data |-> {}]

RECURSIVE SumLengths(_, _, _)
SumLengths(path, i, unit) ==
    IF i >= Len(path) THEN 0
    ELSE Sqrt(path[i + 1][1] - path[i][1], path[i + 1][2] - path[i][2]) \div unit
         + SumLengths(path, i + 1, unit)

\* PathfindingResult.calculate_path_length, in thousandths; the points of
\* path are cells (unit 1) or are themselves in thousandths (unit 1000)
calculate_path_length(path, unit) == SumLengths(path, 1, unit)

\* _create_result that does not store the error message
_create_result_without_reason(path, found, error_message, st) ==
    [NoResult EXCEPT !.found = found, !.path = path,
                     !.path_length = calculate_path_length(path, 1),
                     !.nodes_expanded = st.nodes_expanded,
                     !.nodes_visited = st.nodes_visited,
                     !.iterations = st.iterations]

_create_result(path, found, error_message, st) ==
    [NoResult EXCEPT !.found = found, !.path = path,
                     !.path_length = calculate_path_length(path, 1),
                     !.error_message = error_message,
                     !.nodes_expanded = st.nodes_expanded,
                     !.nodes_visited = st.nodes_visited,
                     !.iterations = st.iterations]

get_heuristic(a, b, heuristic_type) ==
    CASE heuristic_type = "manhattan" -> manhattan_distance(a, b)
      [] heuristic_type = "euclidean" -> euclidean_distance(a, b)
      [] heuristic_type = "diagonal" -> diagonal_distance(a, b)
      [] OTHER -> euclidean_distance(a, b)

\* f"{position}" of a position, a tuple of two integers
FormatPosition(p) == "(" \o ToString(p[1]) \o ", " \o ToString(p[2]) \o ")"

\* validate_inputs without its two walkability tests
validate_bounds_only(ns, s, g) ==
    IF ~is_valid_position(s)
    THEN "Start position " \o FormatPosition(s) \o " is outside grid bounds"
    ELSE IF ~is_valid_position(g)
    THEN "Goal position " \o FormatPosition(g) \o " is outside grid bounds"
    ELSE "None"

validate_inputs(ns, s, g) ==
    IF ~is_valid_position(s)
    THEN "Start position " \o FormatPosition(s) \o " is outside grid bounds"
    ELSE IF ~is_valid_position(g)
    THEN "Goal position " \o FormatPosition(g) \o " is outside grid bounds"
    ELSE IF ~is_walkable(ns, s)
    THEN "Start position " \o FormatPosition(s) \o " is not walkable"
    ELSE IF ~is_walkable(ns, g)
    THEN "Goal position " \o FormatPosition(g) \o " is not walkable"
    ELSE "None"


-----------------------------------------------------------------------------
(* A running find_path call.  Its state is a record f of the values the    *)
(* call reads and writes: f.nodes, f.open_set, f.closed_set, f.seq,        *)
(* f.locals, f.phi_star, f.stats, f.result, f.pc.  Every step of an engine *)
(* is an operator from such a record to the next one.                      *)

NoLocals == [of |-> "none"]

\* the call returns r
Return(f, r) == [f EXCEPT !.result = r, !.pc = "done"]

\* an exception leaves find_path
Raise(f, exception) ==
    [f EXCEPT !.pc = "raised", !.locals = [of |-> "exception", type |-> exception]]

\* self._increment_iteration(), self._expand_node(), self._visit_node()
_increment_iteration(f) == [f EXCEPT !.stats.iterations = @ + 1]
_expand_node(f) == [f EXCEPT !.stats.nodes_expanded = @ + 1]
_visit_node(f) == [f EXCEPT !.stats.nodes_visited = @ + 1]

\* the return of a failed input validation, and of a call with start = goal
Rejected(f, error_msg) == Return(f, _create_result(<< >>, FALSE, error_msg, f.stats))
Trivial(f, s) == Return(f, _create_result(<<s>>, TRUE, "None", f.stats))

-----------------------------------------------------------------------------
(* The heap.  heapq orders the tuples (f_cost, id(node), node); an entry   *)
(* here also carries seq, the number of the heappush call that made it     *)
(* (history only: the code never reads it).                                *)

Entry(f, c, n) == [f |-> f, id |-> ids[c], node |-> c, seq |-> n]

TupleLess(a, b) == a.f < b.f \/ (a.f = b.f /\ a.id < b.id)

\* the entry heapq.heappop returns
heappop(h) ==
    CHOOSE e \in h : \A o \in h :
        o = e \/ TupleLess(e, o) \/ (~TupleLess(o, e) /\ e.seq < o.seq)

\* heapq.heappush(open_set, (f, id(node), node)) in the call state fr
heappush(fr, f, c) ==
    [fr EXCEPT !.open_set = @ \cup {Entry(f, c, fr.seq + 1)}, !.seq = @ + 1]

\* heuristic_weight * h_cost, the weight in tenths
Weighted(w, h) == (w * h) \div 10

-----------------------------------------------------------------------------
(* algorithms/classical/astar.py: AStar, WeightedAStar *)

\* WeightedAStar.__init__
WeightedAStar(heuristic_type, heuristic_weight) ==
    [name |-> "WeightedAStar", heuristic_type |-> heuristic_type,
     heuristic_weight |-> IF heuristic_weight < 10 THEN 10 ELSE heuristic_weight]

\* AStar.__init__
AStar(heuristic_type, heuristic_weight) ==
    [name |-> "AStar", heuristic_type |-> heuristic_type,
     heuristic_weight |-> heuristic_weight]

\* WeightedAStar.find_path reporting the default weight, not the engine's
WeightedAStarDataDefault(e, r) ==
    IF e.name = "WeightedAStar"
    THEN [r EXCEPT !.algorithm_data =
             @ \cup {<<"heuristic_weight", 15>>, <<"optimality_bound", 15>>}]
    ELSE r

\* WeightedAStar.find_path: what it adds to the Result AStar.find_path returned
WeightedAStarData(e, r) ==
    IF e.name = "WeightedAStar"
    THEN [r EXCEPT !.algorithm_data =
             @ \cup {<<"heuristic_weight", e.heuristic_weight>>,
                     <<"optimality_bound", e.heuristic_weight>>}]
    ELSE r

RECURSIVE AStarNeighbors(_, _, _, _)
\* the for loop, were it not to skip the neighbours in the closed set
AStarNeighborsReopening(f, cur, nbrs, i) ==
    IF i > Len(nbrs) THEN f
    ELSE
      LET nb == nbrs[i]
          visited == _visit_node(f)
          tentative_g == Plus(f.nodes[cur].g_cost, get_movement_cost(cur, nb))
          new == ~f.nodes[nb].in_open_set
          is_better_path == new \/ tentative_g < f.nodes[nb].g_cost
          h == IF new THEN get_heuristic(nb, goal, engine.heuristic_type)
               ELSE f.nodes[nb].h_cost
          f_cost == Plus(tentative_g, Weighted(engine.heuristic_weight, h))
          pushed == heappush([visited EXCEPT !.nodes[nb].h_cost = h,
                                             !.nodes[nb].in_open_set = TRUE,
                                             !.nodes[nb].parent = cur,
                                             !.nodes[nb].g_cost = tentative_g,
                                             !.nodes[nb].f_cost = f_cost],
                             f_cost, nb)
      IN  AStarNeighbors(IF is_better_path THEN pushed ELSE visited, cur, nbrs, i + 1)

\* the for loop over grid.get_neighbors(current_node) of AStar.find_path
AStarNeighbors(f, cur, nbrs, i) ==
    IF i > Len(nbrs) THEN f
    ELSE
      LET nb == nbrs[i]
          visited == _visit_node(f)
      IN  IF nb \in f.closed_set THEN AStarNeighbors(visited, cur, nbrs, i + 1)
          ELSE
            LET tentative_g == Plus(f.nodes[cur].g_cost, get_movement_cost(cur, nb))
                new == ~f.nodes[nb].in_open_set
                is_better_path == new \/ tentative_g < f.nodes[nb].g_cost
                h == IF new THEN get_heuristic(nb, goal, engine.heuristic_type)
                     ELSE f.nodes[nb].h_cost
                f_cost == Plus(tentative_g, Weighted(engine.heuristic_weight, h))
                pushed == heappush([visited EXCEPT !.nodes[nb].h_cost = h,
                                                   !.nodes[nb].in_open_set = TRUE,
                                                   !.nodes[nb].parent = cur,
                                                   !.nodes[nb].g_cost = tentative_g,
                                                   !.nodes[nb].f_cost = f_cost],
                                   f_cost, nb)
            IN  AStarNeighbors(IF is_better_path THEN pushed ELSE visited,
                               cur, nbrs, i + 1)

\* AStar.find_path from its first line to the first test of the while loop
AStarBegin(e, s, g, f) ==
    LET error_msg == validate_inputs(f.nodes, s, g)
        fr == [f EXCEPT !.nodes = reset_pathfinding_data(f.nodes)]
        h == get_heuristic(s, g, e.heuristic_type)
        f_cost == Plus(0, Weighted(e.heuristic_weight, h))
    IN  IF error_msg # "None" THEN Rejected(f, error_msg)
        ELSE IF s = g THEN Trivial(fr, s)
        ELSE heappush([fr EXCEPT !.nodes[s].g_cost = 0, !.nodes[s].h_cost = h,
                                 !.nodes[s].f_cost = f_cost,
                                 !.nodes[s].in_open_set = TRUE,
                                 !.open_set = {}, !.closed_set = {}, !.seq = 0],
                      f_cost, s)

\* one iteration of the while loop of AStar.find_path, or the return after it
AStarIteration(f) ==
    IF f.open_set = {}
    THEN Return(f, _create_result(<< >>, FALSE, "No path exists", f.stats))
    ELSE
      LET top == heappop(f.open_set)
          cur == top.node
          f0 == [_increment_iteration(f) EXCEPT !.open_set = @ \ {top},
                                                !.nodes[cur].in_open_set = FALSE]
      IN  IF cur = goal
          THEN Return(f0, _create_result(get_path(f0.nodes, cur), TRUE, "None", f0.stats))
          ELSE AStarNeighbors(_expand_node([f0 EXCEPT !.closed_set = @ \cup {cur}]),
                              cur, get_neighbors(f0.nodes, cur), 1)

-----------------------------------------------------------------------------
(* algorithms/classical/astar.py: BidirectionalAStar.  Its two heaps are   *)
(* locals.forward_open and locals.backward_open; the entries of a heap all *)
(* carry the same direction string, so they are ordered as A*'s are.       *)

BidirectionalAStar(heuristic_type) ==
    [name |-> "BidirectionalAStar", heuristic_type |-> heuristic_type]

\* heapq.heappush on the forward or on the backward heap
PushForward(fr, f, c) ==
    [fr EXCEPT !.locals.forward_open = @ \cup {Entry(f, c, fr.seq + 1)}, !.seq = @ + 1]
PushBackward(fr, f, c) ==
    [fr EXCEPT !.locals.backward_open = @ \cup {Entry(f, c, fr.seq + 1)}, !.seq = @ + 1]

BidirectionalBegin(e, s, g, f) ==
    LET error_msg == validate_inputs(f.nodes, s, g)
        fr == [f EXCEPT !.nodes = reset_pathfinding_data(f.nodes)]
        hs == get_heuristic(s, g, e.heuristic_type)
        hg == get_heuristic(g, s, e.heuristic_type)
        f1 == [fr EXCEPT !.nodes[s].g_cost = 0, !.nodes[s].h_cost = hs,
                         !.nodes[s].f_cost = hs,
                         !.nodes[g].g_cost = 0, !.nodes[g].h_cost = hg,
                         !.nodes[g].f_cost = hg, !.seq = 0,
                         !.locals = [of |-> "BidirectionalAStar",
                                     forward_open |-> {}, backward_open |-> {},
                                     forward_closed |-> {}, backward_closed |-> {},
                                     forward_nodes |-> {s}, backward_nodes |-> {g},
                                     meeting_point |-> None]]
    IN  IF error_msg # "None" THEN Rejected(f, error_msg)
        ELSE IF s = g THEN Trivial(fr, s)
        ELSE PushBackward(PushForward(f1, hs, s), hg, g)

RECURSIVE ForwardNeighbors(_, _, _, _)
ForwardNeighbors(f, cur, nbrs, i) ==
    IF i > Len(nbrs) THEN f
    ELSE
      LET nb == nbrs[i]
          visited == _visit_node(f)
          tentative_g == Plus(f.nodes[cur].g_cost, get_movement_cost(cur, nb))
          h == get_heuristic(nb, goal, engine.heuristic_type)
          pushed == PushForward([visited EXCEPT !.nodes[nb].parent = cur,
                                                !.nodes[nb].g_cost = tentative_g,
                                                !.nodes[nb].h_cost = h,
                                                !.nodes[nb].f_cost = Plus(tentative_g, h),
                                                !.locals.forward_nodes = @ \cup {nb}],
                                Plus(tentative_g, h), nb)
      IN  IF nb \in f.locals.forward_closed
          THEN ForwardNeighbors(visited, cur, nbrs, i + 1)
          ELSE IF nb \notin f.locals.forward_nodes \/ tentative_g < f.nodes[nb].g_cost
               THEN ForwardNeighbors(pushed, cur, nbrs, i + 1)
               ELSE ForwardNeighbors(visited, cur, nbrs, i + 1)

RECURSIVE BackwardNeighbors(_, _, _, _)
BackwardNeighbors(f, cur, nbrs, i) ==
    IF i > Len(nbrs) THEN f
    ELSE
      LET nb == nbrs[i]
          visited == _visit_node(f)
          tentative_g == Plus(f.nodes[cur].g_cost, get_movement_cost(cur, nb))
          h == get_heuristic(nb, start, engine.heuristic_type)
          pushed == PushBackward([visited EXCEPT !.nodes[nb].g_cost = tentative_g,
                                                 !.nodes[nb].h_cost = h,
                                                 !.nodes[nb].f_cost = Plus(tentative_g, h),
                                                 !.locals.backward_nodes = @ \cup {nb}],
                                 Plus(tentative_g, h), nb)
      IN  IF nb \in f.locals.backward_closed
          THEN BackwardNeighbors(visited, cur, nbrs, i + 1)
          ELSE IF nb \notin f.locals.backward_nodes \/ tentative_g < f.nodes[nb].g_cost
               THEN BackwardNeighbors(pushed, cur, nbrs, i + 1)
               ELSE BackwardNeighbors(visited, cur, nbrs, i + 1)

\* the code after the while loop of BidirectionalAStar.find_path
BidirectionalEnd(f) ==
    IF f.locals.meeting_point # None
    THEN Return(f, _create_result(get_path(f.nodes, f.locals.meeting_point),
                                  TRUE, "None", f.stats))
    ELSE Return(f, _create_result(<< >>, FALSE, "No path exists", f.stats))

\* one iteration of the while loop of BidirectionalAStar.find_path, with the
\* return that follows a break or the end of the loop
BidirectionalIteration(f) ==
    LET fo == f.locals.forward_open
        bo == f.locals.backward_open
        f0 == _increment_iteration(f)
    IN  IF fo = {} /\ bo = {} THEN BidirectionalEnd(f)
        ELSE IF fo # {} /\ (bo = {} \/ Cardinality(fo) <= Cardinality(bo))
        THEN LET top == heappop(fo)
                 cur == top.node
                 f1 == _expand_node([f0 EXCEPT !.locals.forward_open = @ \ {top},
                                               !.locals.forward_closed = @ \cup {cur}])
             IN  IF cur \in f.locals.backward_nodes
                 THEN BidirectionalEnd([f1 EXCEPT !.locals.meeting_point = cur])
                 ELSE ForwardNeighbors(f1, cur, get_neighbors(f1.nodes, cur), 1)
        ELSE LET top == heappop(bo)
                 cur == top.node
                 f1 == _expand_node([f0 EXCEPT !.locals.backward_open = @ \ {top},
                                               !.locals.backward_closed = @ \cup {cur}])
             IN  IF cur \in f.locals.forward_nodes
                 THEN BidirectionalEnd([f1 EXCEPT !.locals.meeting_point = cur])
                 ELSE BackwardNeighbors(f1, cur, get_neighbors(f1.nodes, cur), 1)

-----------------------------------------------------------------------------
(* algorithms/classical/dijkstra.py: Dijkstra *)

Dijkstra == [name |-> "Dijkstra"]

\* Dijkstra.find_path from its first line to the first test of the while loop
DijkstraBegin(e, s, g, f) ==
    LET error_msg == validate_inputs(f.nodes, s, g)
        fr == [f EXCEPT !.nodes = reset_pathfinding_data(f.nodes)]
    IN  IF error_msg # "None" THEN Rejected(f, error_msg)
        ELSE IF s = g THEN Trivial(fr, s)
        ELSE heappush([fr EXCEPT !.nodes[s].g_cost = 0, !.nodes[s].f_cost = 0,
                                 !.open_set = {}, !.closed_set = {}, !.seq = 0],
                      0, s)

RECURSIVE DijkstraNeighbors(_, _, _, _)
\* the for loop over grid.get_neighbors(current_node) of Dijkstra.find_path
DijkstraNeighbors(f, cur, nbrs, i) ==
    IF i > Len(nbrs) THEN f
    ELSE
      LET nb == nbrs[i]
          visited == _visit_node(f)
          distance == Plus(f.nodes[cur].g_cost, get_movement_cost(cur, nb))
          pushed == heappush([visited EXCEPT !.nodes[nb].g_cost = distance,
                                             !.nodes[nb].f_cost = distance,
                                             !.nodes[nb].parent = cur],
                             distance, nb)
      IN  IF nb \in f.closed_set THEN DijkstraNeighbors(visited, cur, nbrs, i + 1)
          ELSE IF distance < f.nodes[nb].g_cost
               THEN DijkstraNeighbors(pushed, cur, nbrs, i + 1)
               ELSE DijkstraNeighbors(visited, cur, nbrs, i + 1)

\* one iteration of the while loop of Dijkstra.find_path, or the return after
\* it; closed_set is the code's local set "visited"
DijkstraIteration(f) ==
    IF f.open_set = {}
    THEN Return(f, _create_result(<< >>, FALSE, "No path exists", f.stats))
    ELSE
      LET top == heappop(f.open_set)
          cur == top.node
          f0 == [_increment_iteration(f) EXCEPT !.open_set = @ \ {top}]
          f1 == _expand_node([f0 EXCEPT !.closed_set = @ \cup {cur}])
      IN  IF cur \in f.closed_set THEN f0
          ELSE IF cur = goal
          THEN Return(f1, [_create_result(get_path(f1.nodes, cur), TRUE, "None", f1.stats)
                             EXCEPT !.algorithm_data =
                                 {<<"shortest_distance", f1.nodes[cur].g_cost>>}])
          ELSE DijkstraNeighbors(f1, cur, get_neighbors(f1.nodes, cur), 1)

-----------------------------------------------------------------------------
(* algorithms/optimized/jump_point_search.py: JumpPointSearch *)

JumpPointSearch(heuristic_type) ==
    [name |-> "JumpPointSearch", heuristic_type |-> heuristic_type]

\* JumpPointSearch.directions
JPSDirections ==
    << <<0, 1>>, <<1, 1>>, <<1, 0>>, <<1, -1>>,
       <<0, -1>>, <<-1, -1>>, <<-1, 0>>, <<-1, 1>> >>

Sign(n) == IF n > 0 THEN 1 ELSE IF n < 0 THEN -1 ELSE 0

\* the directions d of ds, in order, for which cond(d) holds
RECURSIVE Filter(_, _, _)
Filter(ds, keep, i) ==
    IF i > Len(ds) THEN << >>
    ELSE IF keep[i] THEN <<ds[i]>> \o Filter(ds, keep, i + 1)
         ELSE Filter(ds, keep, i + 1)

\* _has_forced_neighbors that never finds one
_no_forced_neighbors(ns, x, y, dx, dy) == FALSE

_has_forced_neighbors(ns, x, y, dx, dy) ==
    IF dx # 0 /\ dy # 0
    THEN \/ (~is_walkable(ns, <<x - dx, y>>) /\ is_walkable(ns, <<x - dx, y + dy>>))
         \/ (~is_walkable(ns, <<x, y - dy>>) /\ is_walkable(ns, <<x + dx, y - dy>>))
    ELSE IF dx # 0
    THEN \/ (~is_walkable(ns, <<x, y + 1>>) /\ is_walkable(ns, <<x + dx, y + 1>>))
         \/ (~is_walkable(ns, <<x, y - 1>>) /\ is_walkable(ns, <<x + dx, y - 1>>))
    ELSE \/ (~is_walkable(ns, <<x + 1, y>>) /\ is_walkable(ns, <<x + 1, y + dy>>))
         \/ (~is_walkable(ns, <<x - 1, y>>) /\ is_walkable(ns, <<x - 1, y + dy>>))

RECURSIVE _jump(_, _, _, _)
\* _jump that stops for the goal only, never at a cell with a forced neighbour
_jump_to_goal_only(ns, pos, direction, g) ==
    LET dx == direction[1]
        dy == direction[2]
        next == <<pos[1] + dx, pos[2] + dy>>
    IN  IF ~is_walkable(ns, next) THEN None
        ELSE IF next = g THEN next
        ELSE IF dx # 0 /\ dy # 0 /\ _jump(ns, next, <<dx, 0>>, g) # None THEN next
        ELSE IF dx # 0 /\ dy # 0 /\ _jump(ns, next, <<0, dy>>, g) # None THEN next
        ELSE _jump(ns, next, direction, g)

\* JumpPointSearch._jump: the jump point reached from pos in direction, or None
_jump(ns, pos, direction, g) ==
    LET dx == direction[1]
        dy == direction[2]
        next == <<pos[1] + dx, pos[2] + dy>>
    IN  IF ~is_walkable(ns, next) THEN None
        ELSE IF next = g THEN next
        ELSE IF _has_forced_neighbors(ns, next[1], next[2], dx, dy) THEN next
        ELSE IF dx # 0 /\ dy # 0 /\ _jump(ns, next, <<dx, 0>>, g) # None THEN next
        ELSE IF dx # 0 /\ dy # 0 /\ _jump(ns, next, <<0, dy>>, g) # None THEN next
        ELSE _jump(ns, next, direction, g)

_prune_neighbors(ns, c, dx, dy) ==
    LET x == c[1]
        y == c[2]
    IN  IF dx # 0 /\ dy # 0
        THEN Filter(<< <<dx, 0>>, <<0, dy>>, <<dx, dy>>, <<-dx, dy>>, <<dx, -dy>> >>,
                    << is_walkable(ns, <<x + dx, y>>),
                       is_walkable(ns, <<x, y + dy>>),
                       is_walkable(ns, <<x + dx, y + dy>>),
                       ~is_walkable(ns, <<x - dx, y>>)
                          /\ is_walkable(ns, <<x - dx, y + dy>>),
                       ~is_walkable(ns, <<x, y - dy>>)
                          /\ is_walkable(ns, <<x + dx, y - dy>>) >>, 1)
        ELSE IF dx # 0
        THEN Filter(<< <<dx, 0>>, <<dx, 1>>, <<dx, -1>> >>,
                    << is_walkable(ns, <<x + dx, y>>),
                       ~is_walkable(ns, <<x, y + 1>>)
                          /\ is_walkable(ns, <<x + dx, y + 1>>),
                       ~is_walkable(ns, <<x, y - 1>>)
                          /\ is_walkable(ns, <<x + dx, y - 1>>) >>, 1)
        ELSE Filter(<< <<0, dy>>, <<1, dy>>, <<-1, dy>> >>,
                    << is_walkable(ns, <<x, y + dy>>),
                       ~is_walkable(ns, <<x + 1, y>>)
                          /\ is_walkable(ns, <<x + 1, y + dy>>),
                       ~is_walkable(ns, <<x - 1, y>>)
                          /\ is_walkable(ns, <<x - 1, y + dy>>) >>, 1)

\* JumpPointSearch._get_neighbors: the directions to jump in from cell c
_get_neighbors(ns, c) ==
    IF ns[c].parent = None
    THEN Filter(JPSDirections,
                [i \in 1 .. 8 |->
                    is_walkable(ns, <<c[1] + JPSDirections[i][1],
                                      c[2] + JPSDirections[i][2]>>)], 1)
    ELSE _prune_neighbors(ns, c, Sign(c[1] - ns[c].parent[1]),
                                 Sign(c[2] - ns[c].parent[2]))

\* the cost of the jump from cell a to jump point b
JumpCost(a, b) ==
    LET dx == Abs(b[1] - a[1])
        dy == Abs(b[2] - a[2])
    IN  IF dx > 0 /\ dy > 0 THEN Max(dx, dy) * diagonal_cost
        ELSE (dx + dy) * straight_cost

\* JumpPointSearch.find_path from its first line to the first test of the
\* while loop
JPSBegin(e, s, g, f) ==
    LET error_msg == validate_inputs(f.nodes, s, g)
        fr == [f EXCEPT !.nodes = reset_pathfinding_data(f.nodes)]
        h == get_heuristic(s, g, e.heuristic_type)
    IN  IF error_msg # "None" THEN Rejected(f, error_msg)
        ELSE IF ~diagonal_movement
        THEN Rejected(f, "JPS requires 8-directional movement")
        ELSE IF s = g THEN Trivial(fr, s)
        ELSE heappush([fr EXCEPT !.nodes[s].g_cost = 0, !.nodes[s].h_cost = h,
                                 !.nodes[s].f_cost = h,
                                 !.open_set = {}, !.closed_set = {}, !.seq = 0,
                                 !.locals = [of |-> "JumpPointSearch",
                                             jump_points_found |-> 0]],
                      h, s)

RECURSIVE JPSNeighbors(_, _, _, _)
\* the for loop over the pruned directions of JumpPointSearch.find_path
JPSNeighbors(f, cur, dirs, i) ==
    IF i > Len(dirs) THEN f
    ELSE
      LET jump_point == _jump(f.nodes, cur, dirs[i], goal)
          counted == [f EXCEPT !.locals.jump_points_found = @ + 1]
          visited == _visit_node(counted)
          tentative_g == Plus(f.nodes[cur].g_cost, JumpCost(cur, jump_point))
          h == get_heuristic(jump_point, goal, engine.heuristic_type)
          f_cost == Plus(tentative_g, h)
          pushed == heappush([visited EXCEPT !.nodes[jump_point].parent = cur,
                                             !.nodes[jump_point].g_cost = tentative_g,
                                             !.nodes[jump_point].h_cost = h,
                                             !.nodes[jump_point].f_cost = f_cost],
                             f_cost, jump_point)
      IN  IF jump_point = None THEN JPSNeighbors(f, cur, dirs, i + 1)
          ELSE IF jump_point \in f.closed_set
          THEN JPSNeighbors(counted, cur, dirs, i + 1)
          ELSE IF tentative_g < f.nodes[jump_point].g_cost
               THEN JPSNeighbors(pushed, cur, dirs, i + 1)
               ELSE JPSNeighbors(visited, cur, dirs, i + 1)

\* one iteration of the while loop of JumpPointSearch.find_path, or the return
\* after it; expansion_ratio is in thousandths
JPSIteration(f) ==
    IF f.open_set = {}
    THEN Return(f, _create_result(<< >>, FALSE, "No path exists", f.stats))
    ELSE
      LET top == heappop(f.open_set)
          cur == top.node
          f0 == [_increment_iteration(f) EXCEPT !.open_set = @ \ {top}]
          f1 == _expand_node([f0 EXCEPT !.closed_set = @ \cup {cur}])
      IN  IF cur \in f.closed_set THEN f0
          ELSE IF cur = goal
          THEN Return(f1, [_create_result(get_path(f1.nodes, cur), TRUE, "None", f1.stats)
                             EXCEPT !.algorithm_data =
                                 {<<"jump_points_found", f1.locals.jump_points_found>>,
                                  <<"expansion_ratio",
                                    (Cardinality(f1.closed_set) * 1000)
                                        \div (width * height)>>}])
          ELSE JPSNeighbors(f1, cur, _get_neighbors(f1.nodes, cur), 1)

-----------------------------------------------------------------------------
(* algorithms/optimized/ida_star.py: IDAStar                               *)

IDAStar(heuristic_type, max_iterations) ==
    [name |-> "IDAStar", heuristic_type |-> heuristic_type,
     max_iterations |-> max_iterations]

ToSet(q) == {q[i] : i \in 1 .. Len(q)}

RECURSIVE _search(_, _, _, _)
RECURSIVE SearchNeighbors(_, _, _, _, _, _, _)

\* _search that keeps the last f above the threshold, not the least
_search_last_overshoot(f, node, g_cost, path) ==
    LET h_cost == get_heuristic(node, goal, engine.heuristic_type)
        f_cost == Plus(g_cost, h_cost)
    IN  IF f_cost > f.locals.current_threshold
        THEN [status |-> "CUTOFF", f |-> [f EXCEPT !.locals.next_threshold = f_cost]]
        ELSE IF node = goal
        THEN [status |-> "FOUND", f |-> [f EXCEPT !.locals.solution_path = path]]
        ELSE SearchNeighbors(_expand_node(f), node, g_cost, path,
                             get_neighbors(f.nodes, node), 1, FALSE)

\* IDAStar._search: the status it returns and the call state it leaves
_search(f, node, g_cost, path) ==
    LET h_cost == get_heuristic(node, goal, engine.heuristic_type)
        f_cost == Plus(g_cost, h_cost)
    IN  IF f_cost > f.locals.current_threshold
        THEN [status |-> "CUTOFF",
              f |-> [f EXCEPT !.locals.next_threshold = Min(@, f_cost)]]
        ELSE IF node = goal
        THEN [status |-> "FOUND", f |-> [f EXCEPT !.locals.solution_path = path]]
        ELSE SearchNeighbors(_expand_node(f), node, g_cost, path,
                             get_neighbors(f.nodes, node), 1, FALSE)

\* the for loop over grid.get_neighbors(node) of IDAStar._search
SearchNeighbors(f, node, g_cost, path, nbrs, i, cutoff_occurred) ==
    IF i > Len(nbrs)
    THEN [status |-> IF cutoff_occurred THEN "CUTOFF" ELSE "NOT_FOUND", f |-> f]
    ELSE
      LET nb == nbrs[i]
          visited == _visit_node(f)
          r == _search(visited, nb, Plus(g_cost, get_movement_cost(node, nb)),
                       path \o <<nb>>)
      IN  IF nb \in ToSet(path)
          THEN SearchNeighbors(visited, node, g_cost, path, nbrs, i + 1, cutoff_occurred)
          ELSE IF r.status = "FOUND" THEN r
          ELSE SearchNeighbors(r.f, node, g_cost, path, nbrs, i + 1,
                               cutoff_occurred \/ r.status = "CUTOFF")

\* IDAStar.find_path from its first line to the first test of the while loop
IDAStarBegin(e, s, g, f) ==
    LET error_msg == validate_inputs(f.nodes, s, g)
        fr == [f EXCEPT !.nodes = reset_pathfinding_data(f.nodes)]
    IN  IF error_msg # "None" THEN Rejected(f, error_msg)
        ELSE IF s = g THEN Trivial(fr, s)
        ELSE [fr EXCEPT !.locals =
                 [of |-> "IDAStar", solution_path |-> << >>,
                  current_threshold |-> get_heuristic(s, g, e.heuristic_type),
                  next_threshold |-> Inf, iterations |-> 0]]

\* one iteration of the while loop of IDAStar.find_path, or the return after it
IDAStarIteration(f) ==
    IF f.locals.iterations >= engine.max_iterations
    THEN Return(f, _create_result(<< >>, FALSE,
             "Maximum iterations (" \o ToString(engine.max_iterations) \o ") exceeded",
             f.stats))
    ELSE
      LET r == _search([f EXCEPT !.locals.next_threshold = Inf], start, 0, <<start>>)
          f1 == _increment_iteration([r.f EXCEPT !.locals.iterations = @ + 1])
      IN  IF r.status = "FOUND"
          THEN Return(f1, [_create_result(f1.locals.solution_path, TRUE, "None", f1.stats)
                             EXCEPT !.algorithm_data =
                                 {<<"final_threshold", f1.locals.current_threshold>>,
                                  <<"ida_iterations", f1.locals.iterations>>,
                                  <<"memory_complexity", "O(d)">>}])
          ELSE IF r.status = "NOT_FOUND"
          THEN Return(f1, _create_result(<< >>, FALSE, "No path exists", f1.stats))
          ELSE [f1 EXCEPT !.locals.current_threshold = f1.locals.next_threshold]

-----------------------------------------------------------------------------
(* algorithms/optimized/ida_star.py: RecursiveBestFirstSearch.  The        *)
(* recursion of _rbfs is locals.stack, one record per active _rbfs call:   *)
(* its node, its f_limit, its successors list and where it stands ("enter":*)
(* at its first line, "loop": at the top of its while loop, "wait": in the *)
(* recursive call of its loop).  The interpreter ends a recursion deeper   *)
(* than its recursion limit with RecursionError.                           *)

RecursiveBestFirstSearch(heuristic_type) ==
    [name |-> "RecursiveBestFirstSearch", heuristic_type |-> heuristic_type]

\* sys.getrecursionlimit(), scaled down to the size of the grids of the model
RecursionLimit == 16

RECURSIVE InsertByF(_, _, _, _)
\* q, sorted by f_cost, with cell c put after the cells that do not cost more
InsertByF(ns, q, c, i) ==
    IF i > Len(q) THEN q \o <<c>>
    ELSE IF ns[q[i]].f_cost > ns[c].f_cost
         THEN SubSeq(q, 1, i - 1) \o <<c>> \o SubSeq(q, i, Len(q))
         ELSE InsertByF(ns, q, c, i + 1)

RECURSIVE SortByF(_, _)
\* successors.sort(key=lambda n: n.f_cost): a stable sort
SortByF(ns, q) ==
    IF q = << >> THEN << >>
    ELSE InsertByF(ns, SortByF(ns, SubSeq(q, 1, Len(q) - 1)), q[Len(q)], 1)

RECURSIVE RBFSSuccessors(_, _, _, _, _)
\* the for loop over grid.get_neighbors(node) of _rbfs: the call state it
\* leaves and the successors it collects
RBFSSuccessors(f, node, nbrs, i, successors) ==
    IF i > Len(nbrs) THEN [f |-> f, successors |-> successors]
    ELSE
      LET nb == nbrs[i]
          visited == _visit_node(f)
          tentative_g == Plus(f.nodes[node].g_cost, get_movement_cost(node, nb))
          h == get_heuristic(nb, goal, engine.heuristic_type)
          better == [visited EXCEPT !.nodes[nb].parent = node,
                                    !.nodes[nb].g_cost = tentative_g,
                                    !.nodes[nb].h_cost = h,
                                    !.nodes[nb].f_cost =
                                        Max(Plus(tentative_g, h), f.nodes[node].f_cost)]
      IN  IF f.nodes[nb].parent = node
          THEN RBFSSuccessors(visited, node, nbrs, i + 1, successors)
          ELSE RBFSSuccessors(IF tentative_g < f.nodes[nb].g_cost THEN better ELSE visited,
                              node, nbrs, i + 1, successors \o <<nb>>)

\* RecursiveBestFirstSearch.find_path from its first line to the call of _rbfs
RBFSBegin(e, s, g, f) ==
    LET error_msg == validate_inputs(f.nodes, s, g)
        fr == [f EXCEPT !.nodes = reset_pathfinding_data(f.nodes)]
        h == get_heuristic(s, g, e.heuristic_type)
    IN  IF error_msg # "None" THEN Rejected(f, error_msg)
        ELSE IF s = g THEN Trivial(fr, s)
        ELSE [fr EXCEPT !.nodes[s].g_cost = 0, !.nodes[s].h_cost = h,
                        !.nodes[s].f_cost = h,
                        !.locals = [of |-> "RecursiveBestFirstSearch",
                                    stack |-> << [node |-> s, f_limit |-> Inf,
                                                  successors |-> << >>,
                                                  phase |-> "enter"] >>]]

RECURSIVE RBFSReturn(_, _, _)
\* the innermost _rbfs call returns (solution, new_f_limit): to the _rbfs call
\* that made it, which goes on after its recursive call, or to find_path
RBFSReturn(f, solution, new_f_limit) ==
    LET depth == Len(f.locals.stack)
        caller == f.locals.stack[depth - 1]
        best == caller.successors[1]
        f0 == [f EXCEPT !.locals.stack = SubSeq(@, 1, depth - 1),
                        !.nodes[best].f_cost = new_f_limit]
    IN  IF depth = 1
        THEN IF solution # None
             THEN Return(f, [_create_result(get_path(f.nodes, solution), TRUE, "None",
                                            f.stats)
                               EXCEPT !.algorithm_data =
                                   {<<"search_type", "recursive_best_first">>}])
             ELSE Return(f, _create_result(<< >>, FALSE, "No path exists", f.stats))
        ELSE IF solution # None THEN RBFSReturn(f0, solution, new_f_limit)
        ELSE [f0 EXCEPT !.locals.stack[depth - 1].successors =
                            SortByF(f0.nodes, caller.successors),
                        !.locals.stack[depth - 1].phase = "loop"]

\* one step of the innermost _rbfs call: from its first line to its while
\* loop, or one iteration of that loop up to its recursive call
RBFSIteration(f) ==
    LET depth == Len(f.locals.stack)
        top == f.locals.stack[depth]
        node == top.node
    IN  IF top.phase = "enter"
        THEN LET f0 == _increment_iteration(f)
                 r == RBFSSuccessors(f0, node, get_neighbors(f0.nodes, node), 1, << >>)
             IN  IF f.nodes[node].f_cost > top.f_limit
                 THEN RBFSReturn(f0, None, f.nodes[node].f_cost)
                 ELSE IF node = goal THEN RBFSReturn(f0, node, top.f_limit)
                 ELSE IF r.successors = << >> THEN RBFSReturn(r.f, None, Inf)
                 ELSE [r.f EXCEPT !.locals.stack[depth].successors =
                                      SortByF(r.f.nodes, r.successors),
                                  !.locals.stack[depth].phase = "loop"]
        ELSE LET best == top.successors[1]
                 f0 == _expand_node(f)
                 alternative == IF Len(top.successors) > 1
                                THEN f.nodes[top.successors[2]].f_cost ELSE Inf
             IN  IF f.nodes[best].f_cost > top.f_limit
                 THEN RBFSReturn(f0, None, f.nodes[best].f_cost)
                 ELSE IF depth >= RecursionLimit THEN Raise(f0, "RecursionError")
                 ELSE [f0 EXCEPT !.locals.stack =
                          [@ EXCEPT ![depth].phase = "wait"]
                              \o << [node |-> best,
                                     f_limit |-> Min(top.f_limit, alternative),
                                     successors |-> << >>, phase |-> "enter"] >>]

-----------------------------------------------------------------------------
(* algorithms/any_angle/theta_star.py: ThetaStar, LazyThetaStar, on the    *)
(* AngleGrid of core/grid.py.  locals.open_set_dict is the key set of the  *)
(* code's open_set_dict, whose values are never read.                      *)

ThetaStar(heuristic_type) == [name |-> "ThetaStar", heuristic_type |-> heuristic_type]

LazyThetaStar(heuristic_type) ==
    [name |-> "LazyThetaStar", heuristic_type |-> heuristic_type]

RECURSIVE LineWalk(_, _, _, _, _, _, _, _, _, _)
\* the while loop, were it to test for the end of the line before it tests
\* the cell it stands on
LineWalkToEnd(ns, x, y, ix2, iy2, dx, dy, x_step, y_step, error) ==
    IF x = ix2 /\ y = iy2 THEN TRUE
    ELSE IF ~is_walkable(ns, <<x, y>>) THEN FALSE
    ELSE LET error2 == 2 * error
             movex == error2 > -dy
             movey == error2 < dx
         IN  LineWalk(ns, IF movex THEN x + x_step ELSE x,
                      IF movey THEN y + y_step ELSE y, ix2, iy2, dx, dy,
                      x_step, y_step,
                      error - (IF movex THEN dy ELSE 0) + (IF movey THEN dx ELSE 0))

\* the while loop of AngleGrid.has_line_of_sight
LineWalk(ns, x, y, ix2, iy2, dx, dy, x_step, y_step, error) ==
    IF ~is_walkable(ns, <<x, y>>) THEN FALSE
    ELSE IF x = ix2 /\ y = iy2 THEN TRUE
    ELSE LET error2 == 2 * error
             movex == error2 > -dy
             movey == error2 < dx
         IN  LineWalk(ns, IF movex THEN x + x_step ELSE x,
                      IF movey THEN y + y_step ELSE y, ix2, iy2, dx, dy,
                      x_step, y_step,
                      error - (IF movex THEN dy ELSE 0) + (IF movey THEN dx ELSE 0))

\* AngleGrid.has_line_of_sight between the cells a and b
has_line_of_sight(ns, a, b) ==
    LET dx == Abs(b[1] - a[1])
        dy == Abs(b[2] - a[2])
    IN  LineWalk(ns, a[1], a[2], b[1], b[2], dx, dy,
                 IF a[1] < b[1] THEN 1 ELSE -1, IF a[2] < b[2] THEN 1 ELSE -1, dx - dy)

\* no has_line_of_sight call has been made yet
NoSight == [p1 |-> None, p2 |-> None, clear |-> FALSE]

RECURSIVE ThetaPathTo(_, _, _)
\* the while loop of _reconstruct_theta_path, before the reversal
ThetaPathTo(ns, c, fuel) ==
    IF c = None \/ fuel = 0 THEN << >>
    ELSE ThetaPathTo(ns, ns[c].parent, fuel - 1)
             \o << IF ns[c].parent_xy # None THEN ns[c].parent_xy ELSE c >>

_reconstruct_theta_path(ns, c) == ThetaPathTo(ns, c, Cardinality(DOMAIN ns) + 1)

\* the body of "if neighbor not in open_set_dict or tentative_g < ..."
ThetaRelax(f, nb, parent, parent_coords, tentative_g) ==
    LET h == get_heuristic(nb, goal, engine.heuristic_type)
        f_cost == Plus(tentative_g, h)
        set == [f EXCEPT !.nodes[nb].parent = parent,
                         !.nodes[nb].parent_xy = parent_coords,
                         !.nodes[nb].g_cost = tentative_g, !.nodes[nb].h_cost = h,
                         !.nodes[nb].f_cost = f_cost,
                         !.locals.open_set_dict = @ \cup {nb}]
    IN  IF nb \notin f.locals.open_set_dict \/ tentative_g < f.nodes[nb].g_cost
        THEN IF nb \notin f.locals.open_set_dict THEN heappush(set, f_cost, nb) ELSE set
        ELSE f

\* ThetaStar.find_path and LazyThetaStar.find_path from the first line to the
\* first test of the while loop
ThetaStarBegin(e, s, g, f) ==
    LET error_msg == validate_inputs(f.nodes, s, g)
        fr == [f EXCEPT !.nodes = reset_pathfinding_data(f.nodes)]
        h == get_heuristic(s, g, e.heuristic_type)
    IN  IF error_msg # "None" THEN Rejected(f, error_msg)
        ELSE IF kind # "AngleGrid"
        THEN Rejected(f, IF e.name = "ThetaStar"
                         THEN "Theta* requires AngleGrid for line-of-sight checks"
                         ELSE "Lazy Theta* requires AngleGrid")
        ELSE IF s = g THEN Trivial(fr, s)
        ELSE heappush([fr EXCEPT !.nodes[s].g_cost = 0, !.nodes[s].h_cost = h,
                                 !.nodes[s].f_cost = h, !.nodes[s].parent_xy = s,
                                 !.open_set = {}, !.closed_set = {}, !.seq = 0,
                                 !.locals = [of |-> e.name, open_set_dict |-> {s}]],
                      h, s)

RECURSIVE ThetaNeighbors(_, _, _, _)
\* the for loop over grid.get_neighbors(current_node) of ThetaStar.find_path
ThetaNeighbors(f, cur, nbrs, i) ==
    IF i > Len(nbrs) THEN f
    ELSE
      LET nb == nbrs[i]
          visited == _visit_node(f)
          parent == f.nodes[cur].parent
          parent_coords == f.nodes[cur].parent_xy
          distance == Sqrt(nb[1] - parent_coords[1], nb[2] - parent_coords[2])
      IN  IF nb \in f.closed_set THEN ThetaNeighbors(visited, cur, nbrs, i + 1)
          ELSE IF parent # None /\ parent_coords # None
                  /\ has_line_of_sight(f.nodes, parent_coords, nb)
          THEN ThetaNeighbors(
                   ThetaRelax(visited, nb, parent, parent_coords,
                              Plus(f.nodes[parent].g_cost, distance)),
                   cur, nbrs, i + 1)
          ELSE ThetaNeighbors(
                   ThetaRelax(visited, nb, cur, cur,
                              Plus(f.nodes[cur].g_cost, get_movement_cost(cur, nb))),
                   cur, nbrs, i + 1)

\* one iteration of the while loop of ThetaStar.find_path, or the return after
ThetaStarIteration(f) ==
    IF f.open_set = {}
    THEN Return(f, _create_result(<< >>, FALSE, "No path exists", f.stats))
    ELSE
      LET top == heappop(f.open_set)
          cur == top.node
          f0 == [_increment_iteration(f) EXCEPT !.open_set = @ \ {top},
                                                !.locals.open_set_dict = @ \ {cur}]
      IN  IF cur = goal
          THEN Return(f0, [_create_result(_reconstruct_theta_path(f0.nodes, cur), TRUE,
                                          "None", f0.stats)
                             EXCEPT !.algorithm_data = {<<"path_type", "any_angle">>}])
          ELSE ThetaNeighbors(_expand_node([f0 EXCEPT !.closed_set = @ \cup {cur}]),
                              cur, get_neighbors(f0.nodes, cur), 1)

RECURSIVE BestParent(_, _, _, _, _)
\* the for loop of LazyThetaStar._recompute_path: <<best_parent, best_cost>>
BestParent(ns, node, nbrs, i, best) ==
    IF i > Len(nbrs) THEN best
    ELSE LET nb == nbrs[i]
             cost == Plus(ns[nb].g_cost, get_movement_cost(nb, node))
         IN  BestParent(ns, node, nbrs, i + 1,
                        IF ns[nb].parent # None /\ cost < best[2]
                        THEN <<nb, cost>> ELSE best)

\* LazyThetaStar._recompute_path
_recompute_path(f, node) ==
    LET best == BestParent(f.nodes, node, get_neighbors(f.nodes, f.nodes[node].parent),
                           1, <<None, Inf>>)
    IN  IF best[1] # None
        THEN [f EXCEPT !.nodes[node].parent = best[1], !.nodes[node].g_cost = best[2],
                       !.nodes[node].parent_xy = best[1]]
        ELSE f

RECURSIVE LazyNeighbors(_, _, _, _)
\* the for loop over grid.get_neighbors(current_node) of LazyThetaStar.find_path
LazyNeighbors(f, cur, nbrs, i) ==
    IF i > Len(nbrs) THEN f
    ELSE
      LET nb == nbrs[i]
          visited == _visit_node(f)
      IN  IF nb \in f.closed_set THEN LazyNeighbors(visited, cur, nbrs, i + 1)
          ELSE LazyNeighbors(
                   ThetaRelax(visited, nb, cur, cur,
                              Plus(f.nodes[cur].g_cost, get_movement_cost(cur, nb))),
                   cur, nbrs, i + 1)

\* one iteration of the while loop of LazyThetaStar.find_path, or the return
\* after it
LazyThetaStarIteration(f) ==
    IF f.open_set = {}
    THEN Return(f, _create_result(<< >>, FALSE, "No path exists", f.stats))
    ELSE
      LET top == heappop(f.open_set)
          cur == top.node
          f0 == [_increment_iteration(f) EXCEPT !.open_set = @ \ {top},
                                                !.locals.open_set_dict = @ \ {cur}]
          parent == f0.nodes[cur].parent
          parent_coords == f0.nodes[cur].parent_xy
          f1 == IF parent # None /\ f0.nodes[parent].parent # None
                   /\ parent_coords # None
                   /\ ~has_line_of_sight(f0.nodes, parent_coords, cur)
                THEN _recompute_path(f0, cur) ELSE f0
      IN  IF cur = goal
          THEN Return(f1, [_create_result(_reconstruct_theta_path(f1.nodes, cur), TRUE,
                                          "None", f1.stats)
                             EXCEPT !.algorithm_data = {<<"algorithm_type", "lazy">>}])
          ELSE LazyNeighbors(_expand_node([f1 EXCEPT !.closed_set = @ \cup {cur}]),
                             cur, get_neighbors(f1.nodes, cur), 1)

-----------------------------------------------------------------------------
(* algorithms/any_angle/incremental_phi_star.py: IncrementalPhiStar, on    *)
(* the DynamicGrid of core/grid.py.  Its heap entries are the 4-tuples     *)
(* (k1, k2, id(node), node); _top_key unpacks the first entry into three   *)
(* names, which raises ValueError.  The while condition of _search calls   *)
(* _top_key whenever the heap is not empty, so the body of that loop never *)
(* runs and is not modelled.  epsilon is in tenths.                        *)

IncrementalPhiStar(heuristic_type) ==
    [name |-> "IncrementalPhiStar", heuristic_type |-> heuristic_type, epsilon |-> 25]

\* the fields IncrementalPhiStar.__init__ sets
NewPhiStar == [goal_node |-> None, open_set |-> {}, open_set_dict |-> {},
               closed_set |-> {}, inconsistent_nodes |-> {}]

\* DynamicNode.is_consistent: abs(g_cost - rhs) < 1e-6, which is false when
\* either is float('inf') (the difference is then inf or nan)
is_consistent(n) == n.g_cost < Inf /\ n.rhs < Inf /\ n.g_cost = n.rhs

\* IncrementalPhiStar._calculate_key
_calculate_key(e, ns, c, s) ==
    LET min_g_rhs == Min(ns[c].g_cost, ns[c].rhs)
    IN  <<Plus(min_g_rhs, Weighted(e.epsilon, get_heuristic(c, s, e.heuristic_type))),
          min_g_rhs>>

\* IncrementalPhiStar._update_vertex
_update_vertex(e, f, c, s) ==
    LET key == _calculate_key(e, f.nodes, c, s)
        f0 == [f EXCEPT !.phi_star.open_set_dict = @ \ {c}]
    IN  IF is_consistent(f.nodes[c]) THEN f0
        ELSE [f0 EXCEPT !.phi_star.open_set =
                            @ \cup {[f |-> key[1], k2 |-> key[2], id |-> ids[c],
                                     node |-> c, seq |-> f.seq + 1]},
                        !.phi_star.open_set_dict = @ \cup {c},
                        !.seq = @ + 1]

\* IncrementalPhiStar._initialize_search
_initialize_search(e, f, s, g) ==
    _update_vertex(e, [f EXCEPT !.nodes = [reset_pathfinding_data(f.nodes)
                                             EXCEPT ![g].rhs = 0, ![g].g_cost = Inf],
                                !.phi_star = [NewPhiStar EXCEPT !.goal_node = g]],
                   g, s)

\* IncrementalPhiStar._has_valid_search_data: "a and b or c" is "(a and b) or c"
_has_valid_search_data(p) ==
    (p.goal_node # None /\ p.open_set # {}) \/ p.closed_set # {}

RECURSIVE NumberedFrom(_, _, _)
\* the cells of S in the order of the rows of Grid.nodes
NumberedFrom(S, i, n) ==
    IF i > n THEN << >>
    ELSE LET c == <<(i - 1) % width, (i - 1) \div width>>
         IN  (IF c \in S THEN <<c>> ELSE << >>) \o NumberedFrom(S, i + 1, n)

InGridOrder(S) == NumberedFrom(S, 1, width * height)

\* DynamicGrid.get_changed_nodes
get_changed_nodes(ns) == InGridOrder({c \in DOMAIN ns : ns[c].cost_changed})

RECURSIVE MinRhs(_, _, _, _, _)
\* the loop over the predecessors of node in _handle_updates
MinRhs(ns, node, preds, i, min_rhs) ==
    IF i > Len(preds) THEN min_rhs
    ELSE MinRhs(ns, node, preds, i + 1,
                IF ns[preds[i]].g_cost # Inf
                THEN Min(min_rhs, Plus(ns[preds[i]].g_cost,
                                       euclidean_distance(preds[i], node)))
                ELSE min_rhs)

RECURSIVE UpdateAll(_, _, _, _, _)
\* _update_vertex on every cell of the sequence q
UpdateAll(e, f, q, i, s) ==
    IF i > Len(q) THEN f ELSE UpdateAll(e, _update_vertex(e, f, q[i], s), q, i + 1, s)

RECURSIVE HandleChanged(_, _, _, _, _)
\* the first for loop of _handle_updates
HandleChanged(e, f, changed, i, s) ==
    IF i > Len(changed) THEN f
    ELSE
      LET node == changed[i]
          old_neighbors == get_neighbors(f.nodes, node)
          f0 == IF node # f.phi_star.goal_node
                THEN [f EXCEPT !.nodes[node].rhs =
                                   MinRhs(f.nodes, node, old_neighbors, 1, Inf)]
                ELSE f
          f1 == _update_vertex(e, f0, node, s)
      IN  HandleChanged(e, [f1 EXCEPT !.phi_star.inconsistent_nodes =
                                          @ \cup (ToSet(old_neighbors)
                                                    \ {f.phi_star.goal_node})],
                        changed, i + 1, s)

\* IncrementalPhiStar._handle_updates, with DynamicGrid.clear_change_flags
_handle_updates(e, f, changed, s) ==
    LET f0 == HandleChanged(e, f, changed, 1, s)
        f1 == UpdateAll(e, f0, InGridOrder(f0.phi_star.inconsistent_nodes), 1, s)
    IN  [f1 EXCEPT !.phi_star.inconsistent_nodes = {},
                   !.nodes = [c \in DOMAIN f1.nodes |->
                                 [f1.nodes[c] EXCEPT !.cost_changed = FALSE]]]

\* IncrementalPhiStar.find_path from its first line to the call of _search
PhiStarBegin(e, s, g, f) ==
    LET error_msg == validate_inputs(f.nodes, s, g)
        changed_nodes == get_changed_nodes(f.nodes)
    IN  IF error_msg # "None" THEN Rejected(f, error_msg)
        ELSE IF kind # "DynamicGrid"
        THEN Rejected(f, "Incremental Phi* requires DynamicGrid")
        ELSE IF s = g THEN Trivial(f, s)
        ELSE IF f.phi_star.goal_node # g \/ ~_has_valid_search_data(f.phi_star)
        THEN _initialize_search(e, f, s, g)
        ELSE IF changed_nodes # << >> THEN _handle_updates(e, f, changed_nodes, s)
        ELSE f

RECURSIVE AnyAnglePath(_, _, _, _)
RECURSIVE BestNext(_, _, _, _)

\* the for loop of _reconstruct_any_angle_path: <<best_next, best_cost>>
BestNext(ns, nbrs, i, best) ==
    IF i > Len(nbrs) THEN best
    ELSE BestNext(ns, nbrs, i + 1,
                  IF ns[nbrs[i]].g_cost < best[2]
                  THEN <<nbrs[i], ns[nbrs[i]].g_cost>> ELSE best)

\* the while loop of _reconstruct_any_angle_path; fuel bounds the walk
AnyAnglePath(ns, current, g, fuel) ==
    IF current = g \/ fuel = 0 THEN << >>
    ELSE LET best == BestNext(ns, get_neighbors(ns, current), 1, <<None, Inf>>)
         IN  <<current>> \o (IF best[1] = None THEN << >>
                             ELSE AnyAnglePath(ns, best[1], g, fuel - 1))

_reconstruct_any_angle_path(ns, s, g) ==
    AnyAnglePath(ns, s, g, Cardinality(DOMAIN ns) + 1) \o <<g>>

\* IncrementalPhiStar._search and the lines of find_path after it
PhiStarSearch(f) ==
    IF f.phi_star.open_set # {} THEN Raise(f, "ValueError")
    ELSE IF f.nodes[start].g_cost = Inf
    THEN Return(f, _create_result(<< >>, FALSE, "No path exists", f.stats))
    ELSE Return(f, [_create_result(_reconstruct_any_angle_path(f.nodes, start, goal),
                                   TRUE, "None", f.stats)
                      EXCEPT !.algorithm_data =
                          {<<"incremental", TRUE>>, <<"epsilon", engine.epsilon>>}])

-----------------------------------------------------------------------------
(* algorithms/sampling/rrt.py: RRT, RRTStar, RRTConnect, on the            *)
(* SamplingNode of core/node.py.  A coordinate of a SamplingNode is an     *)
(* integer number of thousandths of a cell.  A tree is the sequence of its *)
(* nodes in the order of their creation; the parent of a node is its index *)
(* in that sequence (0: no parent).                                        *)

RRT(step_size, max_iterations) ==
    [name |-> "RRT", step_size |-> step_size, max_iterations |-> max_iterations]

RRTStar(step_size, max_iterations, rewiring_radius) ==
    [name |-> "RRTStar", step_size |-> step_size, max_iterations |-> max_iterations,
     rewiring_radius |-> rewiring_radius]

RRTConnect(step_size, max_iterations) ==
    [name |-> "RRTConnect", step_size |-> step_size, max_iterations |-> max_iterations]

\* SamplingNode.__init__ at the centre of cell c
SamplingNode(x, y) == [x |-> x, y |-> y, parent |-> 0, children |-> {}, cost |-> 0]

\* a / b rounded towards zero
Quotient(a, b) == IF a >= 0 THEN a \div b ELSE -((-a) \div b)

\* SamplingNode.distance_to
distance_to(a, b) ==
    SqrtSearch((a.x - b.x) * (a.x - b.x) + (a.y - b.y) * (a.y - b.y), 0,
               Abs(a.x - b.x) + Abs(a.y - b.y))

\* SamplingNode.__eq__: the same position
SamePoint(a, b) == a.x = b.x /\ a.y = b.y

\* child in self.children: the set holds a node at the position of tree[j]
\* (SamplingNode.__eq__ and __hash__ go by position)
HasChild(tree, p, j) == \E k \in tree[p].children : SamePoint(tree[k], tree[j])

\* SamplingNode.add_child: tree[p].add_child(tree[j])
add_child(tree, p, j) ==
    [tree EXCEPT ![p].children = IF HasChild(tree, p, j) THEN @ ELSE @ \cup {j},
                 ![j].parent = p]

\* SamplingNode.remove_child: tree[p].remove_child(tree[j])
remove_child(tree, p, j) ==
    IF HasChild(tree, p, j)
    THEN [tree EXCEPT ![p].children = {k \in @ : ~SamePoint(tree[k], tree[j])},
                      ![j].parent = 0]
    ELSE tree

\* int(round(p / q)) for q > 0: to the nearest integer, a half to the even one
Round(p, q) ==
    LET floor == IF p >= 0 THEN p \div q ELSE -(((-p) + q - 1) \div q)
        rest == p - floor * q
    IN  IF 2 * rest < q THEN floor
        ELSE IF 2 * rest > q THEN floor + 1
        ELSE IF floor % 2 = 0 THEN floor ELSE floor + 1

\* RRT._is_collision_free and RRTConnect._is_collision_free
_is_collision_free(ns, a, b) ==
    LET num_samples == Max(10, (distance_to(a, b) * 2) \div 1000)
    IN  \A i \in 0 .. num_samples :
            is_walkable(ns, <<Round(a.x * num_samples + i * (b.x - a.x),
                                    1000 * num_samples),
                              Round(a.y * num_samples + i * (b.y - a.y),
                                    1000 * num_samples)>>)

RECURSIVE Nearest(_, _, _, _)
\* RRT._find_nearest_node, min(tree, key=...): the index of the first nearest
Nearest(tree, sample, i, best) ==
    IF i > Len(tree) THEN best
    ELSE Nearest(tree, sample, i + 1,
                 IF distance_to(tree[i], sample) < distance_to(tree[best], sample)
                 THEN i ELSE best)

_find_nearest_node(tree, sample) == Nearest(tree, sample, 2, 1)

\* the node one step_size from tree[from] towards sample, as a sequence of
\* one node; no node if the sample is at tree[from]
Stepped(e, tree, from, sample) ==
    LET dx == sample.x - tree[from].x
        dy == sample.y - tree[from].y
        distance == distance_to(tree[from], sample)
    IN  IF distance = 0 THEN << >>
        ELSE << SamplingNode(tree[from].x + Quotient(dx * e.step_size, distance),
                             tree[from].y + Quotient(dy * e.step_size, distance)) >>

\* RRT._extend_tree: the tree with the new node at its end; the empty
\* sequence if it returns None
_extend_tree(e, ns, tree, from, sample) ==
    LET stepped == Stepped(e, tree, from, sample)
        new_node == stepped[1]
    IN  IF stepped = << >> THEN << >>
        ELSE IF _is_collision_free(ns, tree[from], new_node)
        THEN add_child(
                 Append(tree, [new_node EXCEPT !.parent = from,
                                  !.cost = tree[from].cost
                                           + distance_to(tree[from], new_node)]),
                 from, Len(tree) + 1)
        ELSE << >>

RECURSIVE RootPath(_, _, _)
\* the positions from tree[i] up to the root, tree[i] first
RootPath(tree, i, fuel) ==
    IF i = 0 \/ fuel = 0 THEN << >>
    ELSE << <<tree[i].x, tree[i].y>> >> \o RootPath(tree, tree[i].parent, fuel - 1)

RECURSIVE Reverse(_)
Reverse(q) == IF q = << >> THEN << >> ELSE Reverse(Tail(q)) \o <<Head(q)>>

RECURSIVE SumSampled(_, _)
SumSampled(path, i) ==
    IF i >= Len(path) THEN 0
    ELSE distance_to([x |-> path[i][1], y |-> path[i][2]],
                     [x |-> path[i + 1][1], y |-> path[i + 1][2]])
         + SumSampled(path, i + 1)

\* _create_result for a path of SamplingNode positions
SampledResult(path, found, error_message, st) ==
    [_create_result(<< >>, found, error_message, st)
       EXCEPT !.path = path, !.path_length = SumSampled(path, 1)]

RECURSIVE NearbyFrom(_, _, _, _)
\* RRTStar._find_nearby_nodes: the indices of the nodes of tree, in order,
\* at another position than node and within radius of it
NearbyFrom(tree, node, radius, i) ==
    IF i > Len(tree) THEN << >>
    ELSE (IF ~SamePoint(tree[i], node) /\ distance_to(tree[i], node) <= radius
          THEN <<i>> ELSE << >>) \o NearbyFrom(tree, node, radius, i + 1)

RECURSIVE BestOf(_, _, _, _, _, _)
\* the loop of RRTStar._extend_tree over nearby_nodes: <<best_parent, best_cost>>
BestOf(ns, tree, new_node, nearby, i, best) ==
    IF i > Len(nearby) THEN best
    ELSE LET n == tree[nearby[i]]
             potential_cost == n.cost + distance_to(n, new_node)
         IN  BestOf(ns, tree, new_node, nearby, i + 1,
                    IF _is_collision_free(ns, n, new_node) /\ potential_cost < best[2]
                    THEN <<nearby[i], potential_cost>> ELSE best)

RECURSIVE _update_descendant_costs(_, _, _, _)
\* RRTStar._update_descendant_costs(tree[i]), from child candidate j on; the
\* children are taken in the order of their making
_update_descendant_costs(tree, i, j, fuel) ==
    IF j > Len(tree) \/ fuel = 0 THEN tree
    ELSE IF j \in tree[i].children
    THEN _update_descendant_costs(
             _update_descendant_costs(
                 [tree EXCEPT ![j].cost = tree[i].cost + distance_to(tree[i], tree[j])],
                 j, 1, fuel - 1),
             i, j + 1, fuel)
    ELSE _update_descendant_costs(tree, i, j + 1, fuel)

RECURSIVE _rewire_tree(_, _, _, _)
\* RRTStar._rewire_tree; the new node is the last of tree
_rewire_tree(ns, tree, nearby, i) ==
    IF i > Len(nearby) THEN tree
    ELSE LET new == Len(tree)
             k == nearby[i]
             potential_cost == tree[new].cost + distance_to(tree[new], tree[k])
         IN  IF tree[k].parent # 0 /\ _is_collision_free(ns, tree[new], tree[k])
                /\ potential_cost < tree[k].cost
             THEN _rewire_tree(ns,
                      _update_descendant_costs(
                          [add_child(remove_child(tree, tree[k].parent, k), new, k)
                             EXCEPT ![k].cost = potential_cost],
                          k, 1, Len(tree)),
                      nearby, i + 1)
             ELSE _rewire_tree(ns, tree, nearby, i + 1)

\* RRTStar._extend_tree: the rewired tree with the new node at its end; the
\* empty sequence if it returns None
RRTStar_extend_tree(e, ns, tree, from, sample) ==
    LET grown == _extend_tree(e, ns, tree, from, sample)
        new_node == grown[Len(grown)]
        nearby_nodes == NearbyFrom(tree, new_node, e.rewiring_radius, 1)
        best == BestOf(ns, tree, new_node, nearby_nodes, 1, <<from, new_node.cost>>)
        chosen == IF ~SamePoint(tree[best[1]], tree[from])
                  THEN [add_child(remove_child(grown, from, Len(grown)),
                                  best[1], Len(grown))
                          EXCEPT ![Len(grown)].cost = best[2]]
                  ELSE grown
    IN  IF grown = << >> THEN << >> ELSE _rewire_tree(ns, chosen, nearby_nodes, 1)

\* RRT.find_path from its first line to the first test of the for loop
RRTBegin(e, s, g, f) ==
    LET error_msg == validate_inputs(f.nodes, s, g)
    IN  IF error_msg # "None" THEN Rejected(f, error_msg)
        ELSE [f EXCEPT !.locals =
                 [of |-> e.name, iteration |-> 0,
                  nodes |-> <<SamplingNode(s[1] * 1000, s[2] * 1000)>>,
                  goal_node |-> SamplingNode(g[1] * 1000, g[2] * 1000)]]

\* the rest of an iteration of the for loop of RRT.find_path once _extend_tree
\* has made a node: grown is the tree with that node at its end
RRTExtended(f, grown) ==
    LET new_node == grown[Len(grown)]
        goal_node == f.locals.goal_node
        f0 == _expand_node([f EXCEPT !.locals.nodes = grown])
        path == Reverse(RootPath(grown, Len(grown), Len(grown)))
                    \o << <<goal_node.x, goal_node.y>> >>
    IN  IF distance_to(new_node, goal_node) <= 500
           /\ _is_collision_free(f.nodes, new_node, goal_node)
        THEN Return(f0, [SampledResult(path, TRUE, "None", f0.stats)
                           EXCEPT !.algorithm_data =
                               {<<"iterations_used", f0.locals.iteration>>,
                                <<"tree_size", Len(grown)>>,
                                <<"sampling_efficiency",
                                  (f0.locals.iteration * 1000) \div engine.max_iterations>>}])
        ELSE f0

\* the for loop of RRT.find_path, were it to run max_iterations + 1 times
RRTIterationOnceMore(f, sample) ==
    IF f.locals.iteration > engine.max_iterations
    THEN Return(f, SampledResult(<< >>, FALSE,
             "No path found within " \o ToString(engine.max_iterations) \o " iterations",
             f.stats))
    ELSE
      LET f0 == _increment_iteration([f EXCEPT !.locals.iteration = @ + 1])
          tree == f0.locals.nodes
          nearest_node == _find_nearest_node(tree, sample)
          grown == _extend_tree(engine, f0.nodes, tree, nearest_node, sample)
      IN  IF grown = << >> THEN f0 ELSE _expand_node([f0 EXCEPT !.locals.nodes = grown])

\* one iteration of the for loop of RRT.find_path (RRTStar inherits it) with
\* the sample drawn, or the return after the loop
RRTIteration(f, sample) ==
    IF f.locals.iteration >= engine.max_iterations
    THEN Return(f, SampledResult(<< >>, FALSE,
             "No path found within " \o ToString(engine.max_iterations) \o " iterations",
             f.stats))
    ELSE
      LET f0 == _increment_iteration([f EXCEPT !.locals.iteration = @ + 1])
          tree == f0.locals.nodes
          nearest_node == _find_nearest_node(tree, sample)
          grown == IF engine.name = "RRTStar"
                   THEN RRTStar_extend_tree(engine, f0.nodes, tree, nearest_node, sample)
                   ELSE _extend_tree(engine, f0.nodes, tree, nearest_node, sample)
      IN  IF grown = << >> THEN f0 ELSE RRTExtended(f0, grown)

\* RRTConnect.find_path from its first line to the first test of the for loop
RRTConnectBegin(e, s, g, f) ==
    LET error_msg == validate_inputs(f.nodes, s, g)
    IN  IF error_msg # "None" THEN Rejected(f, error_msg)
        ELSE [f EXCEPT !.locals =
                 [of |-> e.name, iteration |-> 0,
                  start_tree |-> <<SamplingNode(s[1] * 1000, s[2] * 1000)>>,
                  goal_tree |-> <<SamplingNode(g[1] * 1000, g[2] * 1000)>>]]

\* RRTConnect._extend_toward_sample: the tree with the new node at its end;
\* the empty sequence if it returns None
_extend_toward_sample(e, ns, tree, sample) ==
    LET nearest == _find_nearest_node(tree, sample)
        stepped == Stepped(e, tree, nearest, sample)
    IN  IF stepped = << >> THEN << >>
        ELSE IF _is_collision_free(ns, tree[nearest], stepped[1])
        THEN add_child(Append(tree, [stepped[1] EXCEPT !.parent = nearest]),
                       nearest, Len(tree) + 1)
        ELSE << >>

\* the for loop of RRTConnect.find_path, were it to end as the grid planners do
RRTConnectIterationDefinitive(f, sample) ==
    IF f.locals.iteration >= engine.max_iterations
    THEN Return(f, SampledResult(<< >>, FALSE,
             "No path exists",
             f.stats))
    ELSE
      LET even == f.locals.iteration % 2 = 0
          f0 == _increment_iteration([f EXCEPT !.locals.iteration = @ + 1])
          other == IF even THEN f.locals.goal_tree ELSE f.locals.start_tree
          grown == _extend_toward_sample(engine, f.nodes,
                       IF even THEN f.locals.start_tree ELSE f.locals.goal_tree, sample)
          new_node == grown[Len(grown)]
          f1 == _expand_node(IF even THEN [f0 EXCEPT !.locals.start_tree = grown]
                                     ELSE [f0 EXCEPT !.locals.goal_tree = grown])
          connection == _find_nearest_node(other, new_node)
          start_path == IF even THEN Reverse(RootPath(grown, Len(grown), Len(grown)))
                        ELSE Reverse(RootPath(other, connection, Len(other)))
          goal_path == IF even THEN RootPath(other, connection, Len(other))
                       ELSE RootPath(grown, Len(grown), Len(grown))
      IN  IF grown = << >> THEN f0
          ELSE IF _is_collision_free(f.nodes, new_node, other[connection])
          THEN Return(f1, [SampledResult(start_path \o goal_path, TRUE, "None", f1.stats)
                             EXCEPT !.algorithm_data =
                                 {<<"bidirectional", 1>>,
                                  <<"start_tree_size", Len(f1.locals.start_tree)>>,
                                  <<"goal_tree_size", Len(f1.locals.goal_tree)>>}])
          ELSE f1

\* one iteration of the for loop of RRTConnect.find_path with the sample
\* drawn, or the return after the loop
RRTConnectIteration(f, sample) ==
    IF f.locals.iteration >= engine.max_iterations
    THEN Return(f, SampledResult(<< >>, FALSE,
             "No connection found within " \o ToString(engine.max_iterations)
                 \o " iterations",
             f.stats))
    ELSE
      LET even == f.locals.iteration % 2 = 0
          f0 == _increment_iteration([f EXCEPT !.locals.iteration = @ + 1])
          other == IF even THEN f.locals.goal_tree ELSE f.locals.start_tree
          grown == _extend_toward_sample(engine, f.nodes,
                       IF even THEN f.locals.start_tree ELSE f.locals.goal_tree, sample)
          new_node == grown[Len(grown)]
          f1 == _expand_node(IF even THEN [f0 EXCEPT !.locals.start_tree = grown]
                                     ELSE [f0 EXCEPT !.locals.goal_tree = grown])
          connection == _find_nearest_node(other, new_node)
          start_path == IF even THEN Reverse(RootPath(grown, Len(grown), Len(grown)))
                        ELSE Reverse(RootPath(other, connection, Len(other)))
          goal_path == IF even THEN RootPath(other, connection, Len(other))
                       ELSE RootPath(grown, Len(grown), Len(grown))
      IN  IF grown = << >> THEN f0
          ELSE IF _is_collision_free(f.nodes, new_node, other[connection])
          THEN Return(f1, [SampledResult(start_path \o goal_path, TRUE, "None", f1.stats)
                             EXCEPT !.algorithm_data =
                                 {<<"bidirectional", 1>>,
                                  <<"start_tree_size", Len(f1.locals.start_tree)>>,
                                  <<"goal_tree_size", Len(f1.locals.goal_tree)>>}])
          ELSE f1

-----------------------------------------------------------------------------
(* The engines and the inputs of a call *)

\* the default of IDAStar's max_iterations
default_max_iterations == 1000000

AllEngines ==
    {AStar("euclidean", 10), WeightedAStar("euclidean", 15),
     BidirectionalAStar("euclidean"), Dijkstra,
     ThetaStar("euclidean"), LazyThetaStar("euclidean"),
     IncrementalPhiStar("euclidean"), JumpPointSearch("euclidean"),
     IDAStar("euclidean", default_max_iterations),
     RecursiveBestFirstSearch("euclidean"),
     RRT(1000, SampledIterations), RRTStar(1000, SampledIterations, 2000),
     RRTConnect(1000, SampledIterations)}

SearchEngines ==
    {AStar("euclidean", 10), WeightedAStar("euclidean", 15),
     WeightedAStar("euclidean", 30), Dijkstra, JumpPointSearch("euclidean")}

\* the positions a caller passes: every cell, and one outside the grid
Positions == Cells \cup {<<width, 0>>}

\* the points _sample_random_point draws: the centres of the cells
Samples == {[x |-> c[1] * 1000, y |-> c[2] * 1000] : c \in Cells}

\* the state of the running call
Frame ==
    [nodes |-> nodes, open_set |-> open_set, closed_set |-> closed_set, seq |-> seq,
     locals |-> locals, phi_star |-> phi_star, stats |-> stats, result |-> result,
     pc |-> pc]

\* the running call goes to state f
Become(f) ==
    /\ nodes' = f.nodes
    /\ open_set' = f.open_set
    /\ closed_set' = f.closed_set
    /\ seq' = f.seq
    /\ locals' = f.locals
    /\ phi_star' = f.phi_star
    /\ stats' = f.stats
    /\ result' = f.result
    /\ pc' = f.pc

\* WeightedAStar.find_path adds its diagnostics to whatever AStar.find_path returns
Finish(e, f) ==
    IF f.pc = "done" THEN [f EXCEPT !.result = WeightedAStarData(e, @)] ELSE f

\* PathfindingAlgorithm._start_timing, at the head of every find_path
_start_timing(f) ==
    [f EXCEPT !.stats = NoStats, !.result = NoResult, !.pc = "run",
              !.locals = NoLocals, !.open_set = {}, !.closed_set = {}, !.seq = 0]

\* find_path of engine e from its first line to the first test of its main loop
Begin(e, s, g, f) ==
    CASE e.name \in {"AStar", "WeightedAStar"} -> AStarBegin(e, s, g, f)
      [] e.name = "BidirectionalAStar" -> BidirectionalBegin(e, s, g, f)
      [] e.name = "Dijkstra" -> DijkstraBegin(e, s, g, f)
      [] e.name = "JumpPointSearch" -> JPSBegin(e, s, g, f)
      [] e.name = "IDAStar" -> IDAStarBegin(e, s, g, f)
      [] e.name = "RecursiveBestFirstSearch" -> RBFSBegin(e, s, g, f)
      [] e.name \in {"ThetaStar", "LazyThetaStar"} -> ThetaStarBegin(e, s, g, f)
      [] e.name = "IncrementalPhiStar" -> PhiStarBegin(e, s, g, f)
      [] e.name \in {"RRT", "RRTStar"} -> RRTBegin(e, s, g, f)
      [] e.name = "RRTConnect" -> RRTConnectBegin(e, s, g, f)

\* engine.find_path(grid, s, g) is called
find_path(e, s, g) ==
    /\ engine' = e
    /\ start' = s
    /\ goal' = g
    /\ calls' = calls + 1
    /\ Become(Finish(e, Begin(e, s, g, _start_timing(Frame))))
    /\ UNCHANGED gridVars

\* the first call on a grid
Call(e, s, g) == pc = "setup" /\ find_path(e, s, g) /\ UNCHANGED <<demonstrated, sight>>

\* a further call on a grid, once the call before it is over
CallAgain(e, s, g) ==
    /\ pc \in {"done", "raised"}
    /\ calls < MaxCalls
    /\ find_path(e, s, g)
    /\ UNCHANGED <<demonstrated, sight>>

\* the running call takes one step
Step(f) ==
    /\ Become(Finish(engine, f))
    /\ UNCHANGED <<gridVars, engine, start, goal, calls, demonstrated, sight>>

Running(names) == pc = "run" /\ engine.name \in names

AStarStep == Running({"AStar", "WeightedAStar"}) /\ Step(AStarIteration(Frame))
BidirectionalStep == Running({"BidirectionalAStar"}) /\ Step(BidirectionalIteration(Frame))
DijkstraStep == Running({"Dijkstra"}) /\ Step(DijkstraIteration(Frame))
JPSStep == Running({"JumpPointSearch"}) /\ Step(JPSIteration(Frame))
IDAStarStep == Running({"IDAStar"}) /\ Step(IDAStarIteration(Frame))
RBFSStep ==
    /\ Running({"RecursiveBestFirstSearch"})
    /\ stats.iterations < MaxIterations
    /\ Step(RBFSIteration(Frame))
ThetaStarStep == Running({"ThetaStar"}) /\ Step(ThetaStarIteration(Frame))
LazyThetaStarStep == Running({"LazyThetaStar"}) /\ Step(LazyThetaStarIteration(Frame))
PhiStarStep == Running({"IncrementalPhiStar"}) /\ Step(PhiStarSearch(Frame))
RRTStep ==
    /\ Running({"RRT", "RRTStar"})
    /\ \E sample \in Samples : Step(RRTIteration(Frame, sample))
RRTConnectStep ==
    /\ Running({"RRTConnect"})
    /\ \E sample \in Samples : Step(RRTConnectIteration(Frame, sample))

-----------------------------------------------------------------------------
(* The grid a caller builds *)

NumObstacles(ns) == Cardinality({c \in DOMAIN ns : ~ns[c].walkable})

\* id(node): the nodes are allocated row by row; their addresses may come
\* out in any order, of which the model takes two
IdLayouts == {"ascending", "descending"}

IdOf(layout, w, h, c) ==
    LET k == c[2] * w + c[1]
    IN  IF layout = "ascending" THEN k ELSE w * h - 1 - k

\* Grid.__init__, AngleGrid.__init__, DynamicGrid.__init__ for a grid of w
\* by h cells, with the diagonal_movement the caller then sets, and the
\* engines fresh
NewGrid(w, h, kinds, layouts) ==
    /\ width = w
    /\ height = h
    /\ kind \in kinds
    /\ terrain = IF kind = "WeightedGrid" THEN [c \in CellsOf(w, h) |-> "grass"]
                 ELSE << >>
    /\ diagonal_movement \in BOOLEAN
    /\ \E layout \in layouts : ids = [c \in CellsOf(w, h) |-> IdOf(layout, w, h, c)]
    /\ nodes = [c \in CellsOf(w, h) |-> GridNode(kind)]
    /\ pc = "setup"
    /\ engine = [name |-> "none"]
    /\ start = None
    /\ goal = None
    /\ open_set = {}
    /\ closed_set = {}
    /\ seq = 0
    /\ locals = NoLocals
    /\ phi_star = NewPhiStar
    /\ stats = NoStats
    /\ result = NoResult
    /\ calls = 0
    /\ demonstrated = [engine |-> [name |-> "none"], result |-> NoResult]
    /\ sight = NoSight

\* the body of Grid.set_walkable
mark_walkable(c, walkable) ==
    /\ is_valid_position(c)
    /\ nodes' = [nodes EXCEPT ![c].walkable = walkable]
    /\ UNCHANGED <<gridVars, pc, engine, start, goal, open_set, closed_set,
                   seq, locals, phi_star, stats, result, calls, demonstrated,
                   sight>>

\* Grid.set_walkable, called while the caller builds the grid
set_walkable(c, walkable) == pc = "setup" /\ mark_walkable(c, walkable)

\* the caller marks a cell, keeping at most n cells unwalkable
Build(n) ==
    \E c \in Cells, walkable \in BOOLEAN :
        /\ set_walkable(c, walkable)
        /\ NumObstacles(nodes') <= n

-----------------------------------------------------------------------------
(* Spec: one call of any engine on a small grid of any kind *)

Init == NewGrid(SmallWidth, SmallHeight, {"Grid", "AngleGrid", "DynamicGrid"},
                {"ascending"})

Next ==
    \/ Build(MaxObstacles)
    \/ \E e \in AllEngines, s \in Positions, g \in Positions : Call(e, s, g)
    \/ AStarStep
    \/ BidirectionalStep
    \/ DijkstraStep
    \/ JPSStep
    \/ IDAStarStep
    \/ RBFSStep
    \/ ThetaStarStep
    \/ LazyThetaStarStep
    \/ PhiStarStep
    \/ RRTStep
    \/ RRTConnectStep

Spec == Init /\ [][Next]_vars

-----------------------------------------------------------------------------
(* SpecSearch: one call of a heap-based grid engine on a larger grid *)

InitSearch == NewGrid(MaxWidth, MaxHeight, {"Grid"}, IdLayouts)

NextSearch ==
    \/ Build(SearchObstacles)
    \/ \E e \in SearchEngines, s \in Cells, g \in Cells : Call(e, s, g)
    \/ AStarStep
    \/ DijkstraStep
    \/ JPSStep

SpecSearch == InitSearch /\ [][NextSearch]_vars

-----------------------------------------------------------------------------
(* SpecReuse: a call of any grid engine, then a call of A*, Dijkstra or    *)
(* JPS on the same grid                                                     *)

GridEngines == {e \in AllEngines : e.name \notin {"RRT", "RRTStar", "RRTConnect"}}

ReusingEngines == {AStar("euclidean", 10), Dijkstra, JumpPointSearch("euclidean")}

InitReuse == NewGrid(SmallWidth, SmallHeight, {"Grid", "AngleGrid", "DynamicGrid"},
                     {"ascending"})

NextReuse ==
    \/ Build(ReuseObstacles)
    \/ \E e \in GridEngines, s \in Cells, g \in Cells : Call(e, s, g)
    \/ \E e \in ReusingEngines, s \in Cells, g \in Cells : CallAgain(e, s, g)
    \/ AStarStep
    \/ BidirectionalStep
    \/ DijkstraStep
    \/ JPSStep
    \/ IDAStarStep
    \/ RBFSStep
    \/ ThetaStarStep
    \/ LazyThetaStarStep
    \/ PhiStarStep

SpecReuse == InitReuse /\ [][NextReuse]_vars

-----------------------------------------------------------------------------
(* find_path as a function: the iterations of a call of a deterministic   *)
(* engine, run to the return                                                *)

Iteration(f) ==
    CASE engine.name \in {"AStar", "WeightedAStar"} -> AStarIteration(f)
      [] engine.name = "BidirectionalAStar" -> BidirectionalIteration(f)
      [] engine.name = "Dijkstra" -> DijkstraIteration(f)
      [] engine.name = "JumpPointSearch" -> JPSIteration(f)
      [] engine.name = "IDAStar" -> IDAStarIteration(f)
      [] engine.name = "RecursiveBestFirstSearch" -> RBFSIteration(f)
      [] engine.name = "ThetaStar" -> ThetaStarIteration(f)
      [] engine.name = "LazyThetaStar" -> LazyThetaStarIteration(f)
      [] engine.name = "IncrementalPhiStar" -> PhiStarSearch(f)

RECURSIVE Run(_, _)
\* f after at most n more iterations
Run(f, n) ==
    IF f.pc # "run" \/ n = 0 THEN f
    ELSE Run(Finish(engine, Iteration(f)), n - 1)

-----------------------------------------------------------------------------
(* SpecCompare: examples/demo.py runs one engine after another on the same *)
(* grid with the same start and goal, and shows the Result of each         *)

CompareWidth == 5       \* the width of the grids of SpecCompare
CompareHeight == 3      \* the height of the grids of SpecCompare
CompareObstacles == 2   \* the most unwalkable cells of a grid of SpecCompare

\* demonstrate_algorithm(algorithm, grid, start, goal, name), called once the
\* call before it is over: the Result of that call has been shown, and the
\* next engine searches the same grid from the same start to the same goal
demonstrate_algorithm(e) ==
    /\ pc \in {"done", "raised"}
    /\ calls < MaxCalls
    /\ demonstrated' = [engine |-> engine, result |-> result]
    /\ find_path(e, start, goal)
    /\ UNCHANGED sight

\* the engines run_comprehensive_demo shows after A*
ComparedEngines == {ThetaStar("euclidean"), LazyThetaStar("euclidean")}

\* the corner cells of the grid, between which the demonstration searches
Corners == {<<x, y>> : x \in {0, width - 1}, y \in {0, height - 1}}

InitCompare == NewGrid(CompareWidth, CompareHeight, {"AngleGrid"}, {"ascending"})

NextCompare ==
    \/ Build(CompareObstacles)
    \/ \E s \in Corners, g \in Corners : Call(AStar("euclidean", 10), s, g)
    \/ \E e \in ComparedEngines : demonstrate_algorithm(e)
    \/ AStarStep
    \/ ThetaStarStep
    \/ LazyThetaStarStep

SpecCompare == InitCompare /\ [][NextCompare]_vars

-----------------------------------------------------------------------------
(* SpecJump: the same demonstration with A* and then Jump Point Search on  *)
(* a plain grid                                                            *)

JumpWidth == 3          \* the width of the grids of SpecJump
JumpHeight == 3         \* the height of the grids of SpecJump
JumpObstacles == 2      \* the most unwalkable cells of a grid of SpecJump

InitJump == NewGrid(JumpWidth, JumpHeight, {"Grid"}, IdLayouts)

NextJump ==
    \/ Build(JumpObstacles)
    \/ \E s \in Cells, g \in Cells : Call(AStar("euclidean", 10), s, g)
    \/ demonstrate_algorithm(JumpPointSearch("euclidean"))
    \/ AStarStep
    \/ JPSStep

SpecJump == InitJump /\ [][NextJump]_vars

-----------------------------------------------------------------------------
(* SpecIDA: one call of IDA*, with its default iteration cap or a small one *)

PassBudget == 2         \* the small max_iterations of IDA* in SpecIDA

IDAEngines ==
    {IDAStar("euclidean", default_max_iterations), IDAStar("euclidean", PassBudget)}

InitIDA == NewGrid(MaxWidth, MaxHeight, {"Grid"}, {"ascending"})

NextIDA ==
    \/ Build(MaxObstacles)
    \/ \E e \in IDAEngines, s \in Cells, g \in Cells : Call(e, s, g)
    \/ IDAStarStep

SpecIDA == InitIDA /\ [][NextIDA]_vars

-----------------------------------------------------------------------------
(* SpecSight: has_line_of_sight calls between any two points on and around *)
(* an AngleGrid a caller builds                                            *)

SightObstacles == 1     \* the most unwalkable cells of a grid of SpecSight

\* the points a caller asks about: the cells, and a point beyond each side of
\* the grid
Endpoints ==
    Cells \cup {<<-1, 0>>, <<width, height - 1>>, <<width - 1, -1>>, <<0, height>>}

\* grid.has_line_of_sight(p1[1], p1[2], p2[1], p2[2]) is called and returns
line_of_sight(p1, p2) ==
    /\ pc = "setup"
    /\ kind = "AngleGrid"
    /\ sight' = [p1 |-> p1, p2 |-> p2, clear |-> has_line_of_sight(nodes, p1, p2)]
    /\ UNCHANGED <<gridVars, nodes, pc, engine, start, goal, open_set, closed_set,
                   seq, locals, phi_star, stats, result, calls, demonstrated>>

InitSight ==
    /\ NewGrid(MaxWidth, MaxHeight, {"AngleGrid"}, {"ascending"})
    /\ diagonal_movement

NextSight ==
    \/ Build(SightObstacles)
    \/ \E p1 \in Endpoints, p2 \in Endpoints : line_of_sight(p1, p2)

SpecSight == InitSight /\ [][NextSight]_vars

-----------------------------------------------------------------------------
(* SpecDynamic: a caller changes the cells of a DynamicGrid, reads and     *)
(* clears its change flags and searches it, in any order.  update_counter  *)
(* and last_updated are written and never read, and are left out.          *)

\* no find_path call is running
Idle == pc \in {"setup", "done", "raised"}

\* DynamicGrid.update_node_cost
update_node_cost(c, walkable) ==
    /\ Idle
    /\ is_valid_position(c)
    /\ nodes' = IF nodes[c].walkable # walkable
                THEN [nodes EXCEPT ![c].walkable = walkable, ![c].cost_changed = TRUE]
                ELSE nodes
    /\ UNCHANGED <<gridVars, pc, engine, start, goal, open_set, closed_set,
                   seq, locals, phi_star, stats, result, calls, demonstrated,
                   sight>>

\* DynamicGrid.clear_change_flags
clear_change_flags ==
    /\ Idle
    /\ nodes' = [c \in DOMAIN nodes |-> [nodes[c] EXCEPT !.cost_changed = FALSE]]
    /\ UNCHANGED <<gridVars, pc, engine, start, goal, open_set, closed_set,
                   seq, locals, phi_star, stats, result, calls, demonstrated,
                   sight>>

\* grid.reset_pathfinding_data(), called by the caller between two searches
reset_between_searches ==
    /\ Idle
    /\ nodes' = reset_pathfinding_data(nodes)
    /\ UNCHANGED <<gridVars, pc, engine, start, goal, open_set, closed_set,
                   seq, locals, phi_star, stats, result, calls, demonstrated,
                   sight>>

InitDynamic == NewGrid(SmallWidth, SmallHeight, {"DynamicGrid"}, {"ascending"})

NextDynamic ==
    \/ \E c \in Cells, walkable \in BOOLEAN :
           /\ Idle
           /\ mark_walkable(c, walkable)
           /\ NumObstacles(nodes') <= ReuseObstacles
    \/ \E c \in Cells, walkable \in BOOLEAN :
           /\ update_node_cost(c, walkable)
           /\ NumObstacles(nodes') <= ReuseObstacles
    \/ clear_change_flags
    \/ reset_between_searches
    \/ \E s \in Corners, g \in Corners : Call(AStar("euclidean", 10), s, g)
    \/ AStarStep

SpecDynamic == InitDynamic /\ [][NextDynamic]_vars

-----------------------------------------------------------------------------
(* SpecSample: one call of RRT, with and without iterations allowed *)

SampledEngines == {RRT(1000, 0), RRT(1000, SampledIterations)}

InitSample == NewGrid(SmallWidth, SmallHeight, {"Grid"}, {"ascending"})

NextSample ==
    \/ Build(ReuseObstacles)
    \/ \E e \in SampledEngines, s \in Positions, g \in Positions : Call(e, s, g)
    \/ RRTStep

SpecSample == InitSample /\ [][NextSample]_vars

-----------------------------------------------------------------------------
(* SpecEnclosed: one A* call between two corners of a grid with enough     *)
(* unwalkable cells to wall a corner in                                    *)

EnclosingObstacles == 3 \* the most unwalkable cells of a grid of SpecEnclosed

InitEnclosed == NewGrid(MaxWidth, MaxHeight, {"Grid"}, {"ascending"})

NextEnclosed ==
    \/ Build(EnclosingObstacles)
    \/ \E s \in Corners, g \in Corners : Call(AStar("euclidean", 10), s, g)
    \/ AStarStep

SpecEnclosed == InitEnclosed /\ [][NextEnclosed]_vars

-----------------------------------------------------------------------------
(* SpecRelax: one call of an engine that relaxes parent links, on an       *)
(* AngleGrid, which every one of them accepts                              *)

RelaxingEngines ==
    {AStar("euclidean", 10), Dijkstra, ThetaStar("euclidean"),
     JumpPointSearch("euclidean")}

InitRelax == NewGrid(MaxWidth, MaxHeight, {"AngleGrid"}, {"ascending"})

NextRelax ==
    \/ Build(SearchObstacles)
    \/ \E e \in RelaxingEngines, s \in Cells, g \in Cells : Call(e, s, g)
    \/ AStarStep
    \/ DijkstraStep
    \/ JPSStep
    \/ ThetaStarStep

SpecRelax == InitRelax /\ [][NextRelax]_vars

-----------------------------------------------------------------------------
(* SpecStar: one call of RRT or RRT* from the last corner of an open grid   *)
(* to a corner, with iterations enough to draw a sample again and to       *)
(* rewire after it                                                         *)

StarIterations == 6 \* max_iterations of the engines of SpecStar

StarEngines == {RRT(1000, StarIterations), RRTStar(1000, StarIterations, 2000)}

\* the points drawn in SpecStar: the centres of the cells off the first
\* column and off the last row
StarSamples == {p \in Samples : p.x >= 1000 /\ p.y < (height - 1) * 1000}

StarStep ==
    /\ Running({"RRT", "RRTStar"})
    /\ \E sample \in StarSamples : Step(RRTIteration(Frame, sample))

InitStar == NewGrid(MaxWidth, MaxHeight, {"Grid"}, {"ascending"}) /\ diagonal_movement

NextStar ==
    \/ \E e \in StarEngines, g \in Corners : Call(e, <<width - 1, height - 1>>, g)
    \/ StarStep

SpecStar == InitStar /\ [][NextStar]_vars

-----------------------------------------------------------------------------
(* core/grid.py: WeightedGrid, and SpecTerrain: a WeightedGrid under its    *)
(* own set_terrain and the obstacle operations it inherits from Grid       *)

\* WeightedGrid.TERRAIN_COSTS.get(terrain_type, 1.0), in thousandths
TERRAIN_COSTS(terrain_type) ==
    CASE terrain_type = "grass" -> 1000
      [] terrain_type = "sand" -> 1500
      [] terrain_type = "mud" -> 2000
      [] terrain_type = "water" -> 3000
      [] terrain_type = "mountain" -> 4000
      [] terrain_type = "wall" -> Inf
      [] OTHER -> 1000

\* WeightedGrid.get_terrain_cost
get_terrain_cost(tr, c) == IF is_valid_position(c) THEN TERRAIN_COSTS(tr[c]) ELSE Inf

\* WeightedGrid.get_movement_cost
weighted_movement_cost(tr, a, b) ==
    LET base_cost == get_movement_cost(a, b)
        terrain_cost == Plus(get_terrain_cost(tr, a), get_terrain_cost(tr, b)) \div 2
    IN  IF base_cost >= Inf \/ terrain_cost >= Inf \div 2 THEN Inf
        ELSE (base_cost * terrain_cost) \div 1000

\* the terrain types set in SpecTerrain: the default, the impassable one and
\* one that TERRAIN_COSTS does not list
TerrainTypes == {"grass", "wall", "lava"}

\* WeightedGrid.set_terrain
set_terrain(c, terrain_type) ==
    /\ pc = "setup"
    /\ kind = "WeightedGrid"
    /\ is_valid_position(c)
    /\ terrain' = [terrain EXCEPT ![c] = terrain_type]
    /\ nodes' = [nodes EXCEPT ![c].walkable = TERRAIN_COSTS(terrain_type) # Inf]
    /\ UNCHANGED <<width, height, kind, diagonal_movement, ids, pc, engine, start,
                   goal, open_set, closed_set, seq, locals, phi_star, stats, result,
                   calls, demonstrated, sight>>

\* Grid.clear_obstacles
clear_obstacles ==
    /\ pc = "setup"
    /\ nodes' = [c \in Cells |-> [nodes[c] EXCEPT !.walkable = TRUE]]
    /\ UNCHANGED <<gridVars, pc, engine, start, goal, open_set, closed_set,
                   seq, locals, phi_star, stats, result, calls, demonstrated, sight>>

\* int(total_nodes * obstacle_percentage), the percentage in hundredths
NumDraws(obstacle_percentage) == (width * height * obstacle_percentage) \div 100

\* Grid.add_random_obstacles: drawn are the cells random.randint gives
add_random_obstacles(obstacle_percentage, drawn) ==
    /\ pc = "setup"
    /\ drawn \in [1 .. NumDraws(obstacle_percentage) -> Cells]
    /\ nodes' = [c \in Cells |->
                    IF \E i \in DOMAIN drawn : drawn[i] = c
                    THEN [nodes[c] EXCEPT !.walkable = FALSE] ELSE nodes[c]]
    /\ UNCHANGED <<gridVars, pc, engine, start, goal, open_set, closed_set,
                   seq, locals, phi_star, stats, result, calls, demonstrated, sight>>

\* the obstacle_percentage arguments of SpecTerrain: the default, and a third
ObstaclePercentages == {20, 34}

InitTerrain == NewGrid(SmallWidth, SmallHeight, {"WeightedGrid"}, {"ascending"})

NextTerrain ==
    \/ \E c \in Cells, terrain_type \in TerrainTypes : set_terrain(c, terrain_type)
    \/ \E c \in Cells, walkable \in BOOLEAN : set_walkable(c, walkable)
    \/ clear_obstacles
    \/ \E p \in ObstaclePercentages :
           \E drawn \in [1 .. NumDraws(p) -> Cells] : add_random_obstacles(p, drawn)

SpecTerrain == InitTerrain /\ [][NextTerrain]_vars

-----------------------------------------------------------------------------
(* The properties.  The reference shortest-path pass below reads the map  *)
(* only (walkability, connectivity, the two step costs); it uses none of   *)
(* the operators of the engines or of the grid.                            *)

Returned == pc = "done"

\* the call's start and goal are walkable cells of the grid
ValidCall ==
    /\ start \in Cells /\ nodes[start].walkable
    /\ goal \in Cells /\ nodes[goal].walkable

MinOf(S) == CHOOSE m \in S : \A x \in S : m <= x

\* the cells in row-major order: cell number i, and the number of a cell
CellAt(i) == <<(i - 1) % width, (i - 1) \div width>>
CellNo(c) == c[2] * width + c[1] + 1

\* the cost of the step from cell a to cell b of the map (Inf: no such step)
StepCost(ns, a, b) ==
    LET dx == Abs(b[1] - a[1])
        dy == Abs(b[2] - a[2])
    IN  IF ~(ns[a].walkable /\ ns[b].walkable) THEN Inf
        ELSE IF dx + dy = 1 THEN straight_cost
        ELSE IF dx = 1 /\ dy = 1 /\ diagonal_movement THEN diagonal_cost
        ELSE Inf

RECURSIVE RelaxFrom(_, _, _)
\* one round of relaxing every step into the cells numbered i and up; d is
\* the sequence of the costs known so far, by cell number
RelaxFrom(ns, d, i) ==
    IF i > Len(d) THEN << >>
    ELSE LET c == CellAt(i)
             best == MinOf({d[i]} \cup
                           {Plus(d[j], StepCost(ns, CellAt(j), c)) : j \in 1 .. Len(d)})
         IN  <<best>> \o RelaxFrom(ns, d, i + 1)

RECURSIVE Relax(_, _)
\* rounds of relaxing every step of the map until no cost changes
Relax(ns, d) ==
    LET next == RelaxFrom(ns, d, 1)
    IN  IF next = d THEN d ELSE Relax(ns, next)

RECURSIVE StartCosts(_, _, _)
StartCosts(s, i, n) ==
    IF i > n THEN << >>
    ELSE <<IF CellAt(i) = s THEN 0 ELSE Inf>> \o StartCosts(s, i + 1, n)

\* the cost of a cheapest path of steps from s to g (Inf: there is none)
ShortestCost(ns, s, g) == Relax(ns, StartCosts(s, 1, width * height))[CellNo(g)]

Solvable == ValidCall /\ ShortestCost(nodes, start, goal) < Inf
Unreachable == ValidCall /\ ShortestCost(nodes, start, goal) >= Inf

RECURSIVE SumSteps(_, _, _)
\* the sum of the costs of the steps of path from its i-th cell on
SumSteps(ns, path, i) ==
    IF i >= Len(path) THEN 0
    ELSE Plus(StepCost(ns, path[i], path[i + 1]), SumSteps(ns, path, i + 1))

\* the summed movement cost of path, Inf when some step of it is no step of
\* the map between adjacent walkable cells
PathCost(ns, path) == SumSteps(ns, path, 1)

\* path leads from s to g
Leads(path, s, g) == Len(path) >= 1 /\ path[1] = s /\ path[Len(path)] = g

\* C2: on a solvable map A* (weight 1, Euclidean heuristic) and Dijkstra return
\* a path from start to goal that steps only between adjacent walkable cells
\* and whose summed movement cost is the minimum found by the exhaustive pass
C2_Optimal ==
    (Returned /\ ValidCall /\ engine \in {AStar("euclidean", 10), Dijkstra})
        => LET best == ShortestCost(nodes, start, goal)
           IN  best < Inf => /\ result.found
                             /\ Leads(result.path, start, goal)
                             /\ PathCost(nodes, result.path) = best

C2_Witness ==
    /\ Returned /\ Solvable /\ engine = AStar("euclidean", 10)
    /\ NumObstacles(nodes) >= 1
    /\ Len(result.path) >= 4
    /\ PathCost(nodes, result.path) = ShortestCost(nodes, start, goal)

\* the cells strictly between a and b on the straight or diagonal line from a
\* to b are walkable, and so are a and b
ClearLine(ns, a, b) ==
    LET dx == b[1] - a[1]
        dy == b[2] - a[2]
        n == Max(Abs(dx), Abs(dy))
    IN  /\ dx = 0 \/ dy = 0 \/ Abs(dx) = Abs(dy)
        /\ \A k \in 0 .. n :
              LET c == <<a[1] + k * Sign(dx), a[2] + k * Sign(dy)>>
              IN  c \in Cells /\ ns[c].walkable

RECURSIVE SumJumps(_, _)
SumJumps(path, i) ==
    IF i >= Len(path) THEN 0
    ELSE (IF path[i + 1][1] # path[i][1] /\ path[i + 1][2] # path[i][2]
          THEN Abs(path[i + 1][1] - path[i][1]) * diagonal_cost
          ELSE (Abs(path[i + 1][1] - path[i][1]) + Abs(path[i + 1][2] - path[i][2]))
                   * straight_cost)
         + SumJumps(path, i + 1)

\* C3: on a solvable 8-connected map JPS returns a path from start to goal
\* whose successive jump points lie on clear straight or diagonal lines and
\* whose cost, the sum of the costs of these jumps, is the true shortest cost
C3_JPSOptimal ==
    (Returned /\ ValidCall /\ diagonal_movement /\ engine.name = "JumpPointSearch")
        => LET best == ShortestCost(nodes, start, goal)
           IN  best < Inf =>
                 /\ result.found
                 /\ Leads(result.path, start, goal)
                 /\ \A i \in 1 .. Len(result.path) - 1 :
                       ClearLine(nodes, result.path[i], result.path[i + 1])
                 /\ SumJumps(result.path, 1) = best

C3_Witness ==
    /\ Returned /\ Solvable /\ diagonal_movement /\ engine.name = "JumpPointSearch"
    /\ NumObstacles(nodes) >= 1
    /\ Len(result.path) >= 3
    /\ \E i \in 1 .. Len(result.path) - 1 :
          Max(Abs(result.path[i + 1][1] - result.path[i][1]),
              Abs(result.path[i + 1][2] - result.path[i][2])) >= 2
    /\ SumJumps(result.path, 1) = ShortestCost(nodes, start, goal)

\* C9: on a solvable map Weighted A* with weight w >= 1 returns a path from
\* start to goal of adjacent walkable cells whose cost is at most w times the
\* shortest cost, and its diagnostics report w as the optimality bound (costs
\* are in thousandths, weights in tenths)
C9_Bounded ==
    (Returned /\ ValidCall /\ engine.name = "WeightedAStar")
        => LET best == ShortestCost(nodes, start, goal)
               w == engine.heuristic_weight
           IN  best < Inf =>
                 /\ w >= 10
                 /\ result.found
                 /\ Leads(result.path, start, goal)
                 /\ PathCost(nodes, result.path) * 10 <= w * best
                 /\ <<"optimality_bound", w>> \in result.algorithm_data
                 /\ \A d \in result.algorithm_data : d[1] = "optimality_bound" => d[2] = w

C9_Witness ==
    /\ Returned /\ Solvable /\ engine = WeightedAStar("euclidean", 30)
    /\ result.found
    /\ PathCost(nodes, result.path) > ShortestCost(nodes, start, goal)
    /\ <<"optimality_bound", 30>> \in result.algorithm_data

\* C10: in the frontier of A*, Weighted A*, Dijkstra and JPS, when an entry
\* leaves the frontier, no entry of the same priority f that was inserted
\* before it stays behind
C10_FIFO ==
    [][pc = "run" =>
          \A a \in open_set, b \in open_set :
              (a.f = b.f /\ a.seq < b.seq /\ b \notin open_set') => a \notin open_set']_vars

\* C1: no find_path call, of any engine on any map, ends in a raised error
C1_NeverRaises == pc # "raised"

\* C4: a call whose start equals its goal, a walkable cell, returns found=true,
\* path=[start], cost 0 and nodes_expanded=0, whatever the engine and the map
C4_StartIsGoal ==
    (Returned /\ ValidCall /\ start = goal)
        => /\ result.found
           /\ result.path = <<start>>
           /\ result.path_cost = 0
           /\ result.nodes_expanded = 0

\* the start or the goal of the call is a cell marked unwalkable
Blocked ==
    \/ start \in Cells /\ ~nodes[start].walkable
    \/ goal \in Cells /\ ~nodes[goal].walkable

C6_Consistent ==
    Returned =>
        IF result.found
        THEN result.path # << >> /\ result.error_message = "None"
        ELSE result.path = << >> /\ result.error_message # "None"

C6_Witness ==
    /\ Returned /\ engine.name \in {"RRT", "RRTStar"}
    /\ ~result.found /\ result.path = << >>
    /\ result.error_message = "No path found within 2 iterations"
    /\ \E i \in 2 .. Len(locals.nodes) :
          distance_to(locals.nodes[i], locals.goal_node) <= engine.step_size

\* the grid engines that C7 is about
DefinitiveEngines ==
    {"AStar", "Dijkstra", "BidirectionalAStar", "ThetaStar", "LazyThetaStar",
     "JumpPointSearch", "IDAStar"}

\* C7 as stated: when the goal is not reachable from the start, each of these
\* engines returns found=false with the reason "No path exists"
C7_NoPath ==
    (Returned /\ Unreachable /\ engine.name \in DefinitiveEngines)
        => ~result.found /\ result.error_message = "No path exists"

\* the map has what the engine requires of it
Supported ==
    /\ engine.name = "JumpPointSearch" => diagonal_movement
    /\ engine.name \in {"ThetaStar", "LazyThetaStar"} => kind = "AngleGrid"

\* C7 as amended: when the goal is not reachable from the start (both walkable
\* cells), none of these engines returns found=true; each returns found=false
\* with the reason "No path exists" on a map it supports (any map for A*,
\* Dijkstra, Bidirectional A* and IDA*, an 8-connected map for JPS, an
\* any-angle map for Theta* and Lazy Theta*), and with the reason naming the
\* missing requirement on the other maps
C7_NoPathSupported ==
    (Returned /\ Unreachable /\ engine.name \in DefinitiveEngines)
        => /\ ~result.found
           /\ result.error_message =
                 IF Supported THEN "No path exists"
                 ELSE IF engine.name = "JumpPointSearch"
                 THEN "JPS requires 8-directional movement"
                 ELSE IF engine.name = "ThetaStar"
                 THEN "Theta* requires AngleGrid for line-of-sight checks"
                 ELSE "Lazy Theta* requires AngleGrid"

C7_Witness ==
    /\ Returned /\ Unreachable /\ engine.name = "LazyThetaStar"
    /\ kind = "AngleGrid" /\ diagonal_movement
    /\ result.nodes_expanded >= 2
    /\ ~result.found /\ result.error_message = "No path exists"

\* the grid as Grid.__init__ leaves it, with the walkability of the grid of
\* the call
FreshNodes == [c \in Cells |-> [GridNode(kind) EXCEPT !.walkable = nodes[c].walkable]]

\* the result of the call find_path(start, goal) of the engine on that grid
FreshResult ==
    LET fresh == [nodes |-> FreshNodes, open_set |-> {}, closed_set |-> {}, seq |-> 0,
                  locals |-> NoLocals, phi_star |-> NewPhiStar, stats |-> NoStats,
                  result |-> NoResult, pc |-> "run"]
    IN  Run(Finish(engine, Begin(engine, start, goal, fresh)), 8 * width * height).result

\* C8: a call of A*, Dijkstra or JPS that follows another search on the same
\* grid returns the path and the cost that the same call returns on a fresh
\* grid of the same walkability
C8_Reproducible ==
    (Returned /\ calls >= 2 /\ engine.name \in {"AStar", "Dijkstra", "JumpPointSearch"})
        => LET fresh == FreshResult
           IN  /\ result.found = fresh.found
               /\ result.path = fresh.path
               /\ result.path_length = fresh.path_length
               /\ result.path_cost = fresh.path_cost

C8_Witness ==
    /\ Returned /\ calls = 2 /\ engine.name = "AStar"
    /\ phi_star.open_set # {}
    /\ result.found /\ Len(result.path) >= 3
    /\ NumObstacles(nodes) >= 1
    /\ result.path = FreshResult.path

-----------------------------------------------------------------------------
(* The cost a Result reports.                                              *)

\* C11: a successful search of A*, Weighted A* or Dijkstra reports as its
\* cost (path_cost) the summed movement cost of the path it returns
C11_CostReported ==
    (Returned /\ result.found /\ engine.name \in {"AStar", "WeightedAStar", "Dijkstra"})
        => result.path_cost = PathCost(nodes, result.path)

-----------------------------------------------------------------------------
(* Two engines on the same map, start and goal *)

\* the call that returned follows, on the same grid, start and goal, a
\* successful call of 8-connected A*
AfterAStar ==
    /\ Returned /\ calls = 2 /\ diagonal_movement
    /\ demonstrated.engine = AStar("euclidean", 10)
    /\ demonstrated.result.found

\* C12: on a solvable 8-connected map Theta* and Lazy Theta* each find a path
\* to the goal whose cost (the g of the goal, the length of the any-angle
\* route the search found to it) is at most the cost of the path that A*
\* finds on the same map from the same start to the same goal
C12_AnyAngleNoWorse ==
    (AfterAStar /\ start # goal /\ engine.name \in {"ThetaStar", "LazyThetaStar"})
        => /\ result.found
           /\ nodes[goal].g_cost <= demonstrated.result.path_length

\* C13: on an open 8-connected map JPS, called after A* with the same start
\* and goal, reports at most as many expanded nodes as A* reported, and
\* returns a path of the same cost
C13_JPSExpandsNoMore ==
    (AfterAStar /\ NumObstacles(nodes) = 0 /\ engine.name = "JumpPointSearch")
        => /\ result.found
           /\ result.nodes_expanded <= demonstrated.result.nodes_expanded
           /\ result.path_length = demonstrated.result.path_length
           /\ result.path_cost = demonstrated.result.path_cost

-----------------------------------------------------------------------------
(* The thresholds of IDA*.  The reference below enumerates the simple      *)
(* paths of the map level by level; it uses none of the operators of the   *)
(* engine.                                                                 *)

\* f = g + h of a path from start: its summed movement cost plus the
\* Euclidean distance of its last cell to the goal
PathF(p) ==
    Plus(PathCost(nodes, p), Sqrt(p[Len(p)][1] - goal[1], p[Len(p)][2] - goal[2]))

\* the simple paths that extend a path of P by one step of the map
Extensions(P) ==
    UNION {{p \o <<c>> : c \in {d \in Cells : /\ StepCost(nodes, p[Len(p)], d) < Inf
                                              /\ \A i \in 1 .. Len(p) : p[i] # d}}
           : p \in P}

RECURSIVE Overshoots(_, _)
\* the f of every path at which a depth-first pass with threshold t is cut
\* off below the paths of P, which the pass follows
Overshoots(P, t) ==
    IF P = {} THEN {}
    ELSE LET next == Extensions(P)
         IN  {PathF(p) : p \in {q \in next : PathF(q) > t}}
                 \cup Overshoots({q \in next : PathF(q) <= t}, t)

IDARunning == engine.name = "IDAStar" /\ pc = "run"

\* every result a call of IDA* between two walkable cells may end with
IDAOutcome ==
    \/ result.found /\ Leads(result.path, start, goal)
    \/ ~result.found /\ result.error_message = "No path exists"
    \/ /\ ~result.found
       /\ locals.iterations = engine.max_iterations
       /\ result.error_message =
              "Maximum iterations (" \o ToString(engine.max_iterations) \o ") exceeded"

\* C14: the first threshold of IDA* is h(start); a pass that is cut off sets
\* the threshold to the least f that exceeded it in that pass, which is
\* larger and finite; the passes never number more than max_iterations and
\* the call ends with found=true, "No path exists" or the budget message
C14_Thresholds ==
    /\ [](IDARunning =>
            /\ locals.iterations <= engine.max_iterations
            /\ locals.current_threshold < Inf
            /\ locals.iterations = 0 =>
                   locals.current_threshold = Sqrt(start[1] - goal[1], start[2] - goal[2]))
    /\ []((Returned /\ engine.name = "IDAStar" /\ ValidCall /\ start # goal) => IDAOutcome)
    /\ [][(IDARunning /\ pc' = "run") =>
            /\ locals.current_threshold' > locals.current_threshold
            /\ locals.current_threshold' =
                   MinOf(Overshoots({<<start>>}, locals.current_threshold))
            /\ locals.iterations' = locals.iterations + 1]_vars

C14_Witness ==
    /\ Returned /\ engine = IDAStar("euclidean", PassBudget)
    /\ NumObstacles(nodes) >= 1
    /\ result.error_message =
           "Maximum iterations (" \o ToString(PassBudget) \o ") exceeded"
    /\ locals.current_threshold > Sqrt(start[1] - goal[1], start[2] - goal[2])

-----------------------------------------------------------------------------
(* The wall with one gap *)

\* row y of the map is a wall from edge to edge but for the one gap at x = 2
GapRow(y) == \A x \in 0 .. width - 1 : nodes[<<x, y>>].walkable <=> x = 2

\* JPS was called after A* on a map whose row y is such a wall, with the same
\* start above the wall and the same goal below it, and has returned
ThroughWall(y) ==
    /\ Returned /\ calls = 2
    /\ demonstrated.engine = AStar("euclidean", 10)
    /\ engine = JumpPointSearch("euclidean")
    /\ width >= 3 /\ GapRow(y)
    /\ start[2] < y /\ goal[2] > y

\* both calls found a path through the gap of row y, of the same cost
SameWayThrough(y) ==
    /\ demonstrated.result.found /\ result.found
    /\ <<2, y>> \in ToSet(demonstrated.result.path)
    /\ <<2, y>> \in ToSet(result.path)
    /\ result.path_length = demonstrated.result.path_length
    /\ result.path_cost = demonstrated.result.path_cost

-----------------------------------------------------------------------------
(* The edge cost *)

\* cells a and b are neighbours in the grid, side by side or corner to corner
Adjacent(a, b) ==
    a # b /\ a[1] - b[1] \in {-1, 0, 1} /\ a[2] - b[2] \in {-1, 0, 1}

\* C16: get_movement_cost is symmetric and non-negative, and is infinite for
\* every pair of cells that are not adjacent or of which one is unwalkable
C16_EdgeCost ==
    \A a \in Cells, b \in Cells :
        /\ get_movement_cost(a, b) = get_movement_cost(b, a)
        /\ get_movement_cost(a, b) >= 0
        /\ (~Adjacent(a, b) \/ ~nodes[a].walkable \/ ~nodes[b].walkable)
               => get_movement_cost(a, b) >= Inf

\* the k-th cell of the straight line from a to b: k steps along the longer
\* side, and along the shorter side the nearest whole number of steps, a half
\* going to the lower number
LineCell(a, b, k) ==
    LET dx == Abs(b[1] - a[1])
        dy == Abs(b[2] - a[2])
        sx == IF a[1] < b[1] THEN 1 ELSE -1
        sy == IF a[2] < b[2] THEN 1 ELSE -1
    IN  IF dx >= dy
        THEN <<a[1] + k * sx, a[2] + sy * ((2 * k * dy + dx - 1) \div (2 * dx))>>
        ELSE <<a[1] + sx * ((2 * k * dx + dy - 1) \div (2 * dy)), a[2] + k * sy>>

\* the cells of the discrete traversal from a to b, both ends included
Traversal(a, b) ==
    IF a = b THEN {a}
    ELSE {LineCell(a, b, k) : k \in 0 .. Max(Abs(b[1] - a[1]), Abs(b[2] - a[2]))}

\* C17: a has_line_of_sight call returns, for any two end points; it returns
\* false exactly when some cell of the traversal from the one to the other,
\* the ends included, is unwalkable or outside the grid; and it changes nothing
\* of the grid or of its cells
C17_LineOfSight ==
    [][sight' # sight =>
          /\ sight'.clear = (\A c \in Traversal(sight'.p1, sight'.p2) :
                                 is_valid_position(c) /\ nodes[c].walkable)
          /\ UNCHANGED <<gridVars, nodes>>]_vars

\* a call between two walkable cells, neither in line nor on a diagonal with
\* the other, returned false
C17_Witness ==
    /\ sight # NoSight
    /\ ~sight.clear
    /\ is_walkable(nodes, sight.p1) /\ is_walkable(nodes, sight.p2)
    /\ Abs(sight.p1[1] - sight.p2[1]) = 3
    /\ Abs(sight.p1[2] - sight.p2[2]) = 1

\* the cells get_changed_nodes returns
Changed(ns) == {c \in DOMAIN ns : ns[c].cost_changed}

\* C18: on a DynamicGrid get_changed_nodes returns exactly the cells whose
\* walkability was toggled since the last clear_change_flags: a
\* clear_change_flags call leaves no cell flagged, and every other step
\* (update_node_cost, set_walkable, a step of a search, a scratch reset) adds
\* the cells it toggles to the flagged ones and removes none
C18_ChangedCells ==
    [][IF clear_change_flags
       THEN Changed(nodes') = {}
       ELSE Changed(nodes') =
                Changed(nodes) \cup {c \in Cells : nodes'[c].walkable # nodes[c].walkable}]_vars

\* find_path has been called on an RRT made with max_iterations = 0
NoIterations == calls > 0 /\ engine = RRT(1000, 0)

\* C19: RRT with max_iterations = 0 returns found = false at once: the step
\* after the tree is made returns, the tree never holds a node beyond the
\* root, nodes_expanded is 0 and the Result has found = false and no path
C19_NoIterations ==
    /\ [](NoIterations =>
             /\ pc \in {"run", "done"}
             /\ stats.nodes_expanded = 0
             /\ stats.iterations = 0
             /\ locals.of = "RRT" => Len(locals.nodes) = 1
             /\ pc = "done" => /\ ~result.found
                               /\ result.path = << >>
                               /\ result.nodes_expanded = 0)
    /\ [][(NoIterations /\ pc = "run") => pc' = "done"]_vars

\* a call between two walkable cells came back with the root as the only
\* node of the tree
C19_Witness ==
    /\ NoIterations
    /\ Returned
    /\ ValidCall /\ start # goal
    /\ result.error_message = "No path found within 0 iterations"
    /\ locals.of = "RRT" /\ Len(locals.nodes) = 1

\* a call of A* itself, not of an engine derived from it
PlainAStar == calls > 0 /\ engine.name = "AStar"

\* C20: in one A* search a cell that was moved to the closed set is never
\* expanded again: every expansion adds a cell to the closed set that was
\* not there, so nodes_expanded never exceeds the number of walkable cells
C20_ExpandedOnce ==
    /\ [](PlainAStar =>
             stats.nodes_expanded <= Cardinality({c \in Cells : nodes[c].walkable}))
    /\ [][(PlainAStar /\ pc = "run"
              /\ stats'.nodes_expanded > stats.nodes_expanded)
            => Cardinality(closed_set') > Cardinality(closed_set)]_vars

-----------------------------------------------------------------------------
(* The path of Bidirectional A* and the step that ends its search *)

\* every two consecutive waypoints of path are adjacent walkable cells
StepsOnly(ns, path) ==
    \A i \in 1 .. Len(path) - 1 :
        /\ path[i] \in Cells /\ path[i + 1] \in Cells
        /\ StepCost(ns, path[i], path[i + 1]) < Inf

\* C21: when Bidirectional A* reports found = true, the path starts at start,
\* ends at goal, and each two consecutive waypoints are adjacent walkable cells
C21_BidirectionalPath ==
    (Returned /\ engine.name = "BidirectionalAStar" /\ result.found)
        => /\ Leads(result.path, start, goal)
           /\ StepsOnly(nodes, result.path)

\* a step of a running Bidirectional A* search that dequeues a node
BidirectionalDequeue ==
    /\ pc = "run" /\ engine.name = "BidirectionalAStar"
    /\ locals.forward_open \cup locals.backward_open # {}

\* the step dequeues from the forward frontier
DequeuesForward ==
    /\ locals.forward_open # {}
    /\ \/ locals.backward_open = {}
       \/ Cardinality(locals.forward_open) <= Cardinality(locals.backward_open)

\* the node the step dequeues, and the closed set of the other search
Dequeued ==
    heappop(IF DequeuesForward THEN locals.forward_open ELSE locals.backward_open).node
OtherClosed ==
    IF DequeuesForward THEN locals.backward_closed ELSE locals.forward_closed

\* C22: Bidirectional A* ends with success exactly at the step that dequeues,
\* from one frontier, a node that is in the closed set of the other search; a
\* node the other search has generated and not dequeued does not end it
C22_MeetsClosed ==
    [][BidirectionalDequeue =>
          ((pc' = "done" /\ result'.found) <=> Dequeued \in OtherClosed)]_vars

-----------------------------------------------------------------------------
(* The waypoints of the any-angle engines *)

\* C23: when Theta* or Lazy Theta* reports found = true, the waypoint list
\* begins at the start, ends at the goal, and has no waypoint twice in a row
C23_AnyAngleWaypoints ==
    (Returned /\ engine.name \in {"ThetaStar", "LazyThetaStar"} /\ result.found)
        => /\ Leads(result.path, start, goal)
           /\ \A i \in 1 .. Len(result.path) - 1 : result.path[i] # result.path[i + 1]

-----------------------------------------------------------------------------
(* The parent links of a search *)

RECURSIVE Rooted(_, _, _)
\* following the parent links from cell c reaches, within fuel links, a cell
\* that has no parent
Rooted(ns, c, fuel) ==
    IF ns[c].parent = None THEN TRUE
    ELSE IF fuel = 0 THEN FALSE
    ELSE Rooted(ns, ns[c].parent, fuel - 1)

\* the parent links form a forest: a walk along them that has not ended after
\* as many links as there are cells has come back to a cell
Forest(ns) == \A c \in DOMAIN ns : Rooted(ns, c, Cardinality(DOMAIN ns))

\* a search of one of the engines C24 is about has begun
Relaxing == calls > 0 /\ engine.name \in {"AStar", "Dijkstra", "ThetaStar", "JumpPointSearch"}

\* C24: in every state of an A*, Dijkstra, Theta* or JPS search the parent
\* links form a forest, and no step of the search raises the g of a cell
C24_ParentForest ==
    /\ [](Relaxing => Forest(nodes))
    /\ [][(Relaxing /\ pc = "run")
            => \A c \in Cells : nodes'[c].g_cost <= nodes[c].g_cost]_vars

\* a search is under way in which a relaxation has lowered the g of a cell
\* that was already open (the heap holds its old entry and its new one), and
\* some cell is two parent links away from its root
C24_Witness ==
    /\ Relaxing /\ pc = "run"
    /\ \E a \in open_set, b \in open_set : a.node = b.node /\ a.f > b.f
    /\ \E c \in Cells : nodes[c].parent # None /\ nodes[nodes[c].parent].parent # None

\* every node of the tree but its root costs what its parent costs and the
\* distance from its parent
CostsAdd(tree) ==
    \A i \in 1 .. Len(tree) :
        tree[i].parent # 0
            => tree[i].cost = tree[tree[i].parent].cost
                              + distance_to(tree[tree[i].parent], tree[i])

\* C25: after every extension of the tree of RRT and of RRT*, with its choice
\* of a parent and its rewiring, every node but the root has the cost of its
\* parent plus the distance from its parent.
C25_TreeCosts ==
    (calls > 0 /\ engine.name \in {"RRT", "RRTStar"} /\ locals.of = engine.name)
        => CostsAdd(locals.nodes)

\* C26: a valid call of RecursiveBestFirstSearch.find_path ends by returning,
\* with found exactly when the goal can be reached from the start and with
\* the reason "No path exists" when it cannot, also after a probe has failed
\* and the f of its node has been overwritten with the backed-up value.
C26_RBFSAnswers ==
    (calls > 0 /\ engine.name = "RecursiveBestFirstSearch" /\ ValidCall)
        => /\ pc # "raised"
           /\ Returned => /\ result.found <=> Solvable
                          /\ ~result.found => result.error_message = "No path exists"

\* LazyThetaStar.find_path is about to dequeue a node
LazyDequeue == pc = "run" /\ engine.name = "LazyThetaStar" /\ open_set # {}

\* the node it dequeues
LazyCurrent == heappop(open_set).node

\* C27: a neighbour that Lazy Theta* generates while it expands a node that
\* has a parent is linked to that parent, the neighbour's grandparent, with
\* no test of the line of sight; the line is tested when the neighbour is
\* dequeued, and a neighbour that fails the test is given the cheapest
\* connection among the old parent's neighbours.
C27_LinksToGrandparent ==
    [][LazyDequeue =>
          \A n \in Cells :
              (/\ pc' = "run"
               /\ n \notin locals.open_set_dict
               /\ n \in locals'.open_set_dict
               /\ nodes'[LazyCurrent].parent # None)
                  => nodes'[n].parent = nodes'[LazyCurrent].parent]_vars

SamplingEngines == {"RRT", "RRTStar", "RRTConnect"}

\* the reason a sampling engine gives when its iterations are used up
BudgetReason ==
    (IF engine.name = "RRTConnect" THEN "No connection found within "
     ELSE "No path found within ") \o ToString(engine.max_iterations) \o " iterations"

\* C28: RRT, RRT* and RRT-Connect never report that no path exists; a valid
\* call that uses up its iterations returns found = false with a reason that
\* names the iterations and is not the grid planners' "No path exists".
C28_BudgetReason ==
    (Returned /\ engine.name \in SamplingEngines)
        => /\ result.error_message # "No path exists"
           /\ (ValidCall /\ ~result.found)
                  => /\ stats.iterations = engine.max_iterations
                     /\ result.error_message = BudgetReason
                     /\ BudgetReason # "No path exists"

\* RRT-Connect has used up its iterations on a call whose goal can be reached
C28_Witness ==
    /\ Returned /\ engine.name = "RRTConnect"
    /\ Solvable /\ ~result.found
    /\ stats.iterations = engine.max_iterations

\* C29: the line of sight is symmetric: a has_line_of_sight call between two
\* cells returns what the call with the cells exchanged returns on the same
\* map.
C29_SymmetricSight ==
    [][(sight' # sight /\ sight'.p1 \in Cells /\ sight'.p2 \in Cells)
          => sight'.clear = has_line_of_sight(nodes', sight'.p2, sight'.p1)]_vars

\* C30: on a WeightedGrid, after any sequence of set_terrain, set_walkable,
\* clear_obstacles and add_random_obstacles calls, a cell is walkable exactly
\* when its terrain cost is finite, and get_neighbors returns no cell whose
\* movement cost from the cell it was asked about is infinite.
C30_WalkableTerrain ==
    kind = "WeightedGrid"
        => /\ \A c \in Cells : nodes[c].walkable <=> get_terrain_cost(terrain, c) < Inf
           /\ \A c \in Cells :
                  LET nbrs == get_neighbors(nodes, c)
                  IN  \A i \in 1 .. Len(nbrs) :
                          weighted_movement_cost(terrain, c, nbrs[i]) < Inf
=============================================================================
